---- MODULE Spec2Model ----
(***************************************************************************)
(* A model of nimble (vitorhnn/nimble): the SRF scanner and codecs          *)
(* (src/src/srf.rs), the PBO reader (src/src/pbo.rs), the mod cache         *)
(* (src/src/mod_cache.rs), the full                                         *)
(* rebuild (src/src/commands/gen_srf.rs) and the sync orchestrator with     *)
(* its two-level differ (src/src/commands/sync.rs).                         *)
(*                                                                         *)
(* Strings are sequences of ASCII codes, so that to_uppercase,              *)
(* to_lowercase, replace, split(':') and parse are computed as the code     *)
(* computes them.  File contents are sequences of bytes.                    *)
(*                                                                         *)
(* MD5 is modelled as a collision-free hash: the raw digest of a message    *)
(* is the message itself, its uppercase-hex form is the message behind the  *)
(* tag "M".  The all-zero digest (Md5Digest::default) is a value no         *)
(* message hashes to.                                                       *)
(***************************************************************************)
EXTENDS Integers, Sequences, FiniteSets, TLC

\* ------------------------------------------------------------------ bounds

\* plain-file chunk size (5,000,000 in the source), scaled down
ChunkSize == 2
\* the most files of a directory handed to scan_mod in the scanner specification
MaxScanFiles == 2

\* ----------------------------------------------------------------- strings

CH_COLON == 58
CH_SLASH == 47
CH_BSLASH == 92
CH_AT == 64
CH_USCORE == 95

Str_ADDON == <<65, 68, 68, 79, 78>>
Str_FILE == <<70, 73, 76, 69>>
Str_PBO == <<80, 66, 79>>
Str_mod_srf == <<109, 111, 100, 46, 115, 114, 102>>

\* str::to_uppercase / str::to_lowercase on ASCII
ToUpper(s) == [i \in 1..Len(s) |-> IF s[i] \in 97..122 THEN s[i] - 32 ELSE s[i]]
ToLower(s) == [i \in 1..Len(s) |-> IF s[i] \in 65..90 THEN s[i] + 32 ELSE s[i]]

\* str::replace('\\', "/")
ReplaceBackslash(s) == [i \in 1..Len(s) |-> IF s[i] = CH_BSLASH THEN CH_SLASH ELSE s[i]]

\* Ord for str: byte-wise lexicographic comparison; -1, 0 or 1
StrCmp(a, b) ==
    LET n == IF Len(a) < Len(b) THEN Len(a) ELSE Len(b)
        diff == {i \in 1..n : a[i] # b[i]}
    IN  IF diff = {}
        THEN (IF Len(a) < Len(b) THEN -1 ELSE IF Len(a) > Len(b) THEN 1 ELSE 0)
        ELSE LET k == CHOOSE i \in diff : \A j \in diff : i <= j
             IN  IF a[k] < b[k] THEN -1 ELSE 1

\* the concatenation of a sequence of strings
RECURSIVE Concat(_)
Concat(ss) == IF ss = <<>> THEN <<>> ELSE Head(ss) \o Concat(Tail(ss))

\* Display for unsigned integers (format!("{}", n))
RECURSIVE NumToStr(_)
NumToStr(n) ==
    IF n < 10 THEN <<48 + n>> ELSE NumToStr(n \div 10) \o <<48 + (n % 10)>>

\* ------------------------------------------------------------------ digest

\* Md5::finalize, raw: the collision-free abstraction
Md5Raw(msg) == msg
\* format!("{:X}", hash): the uppercase-hex form of a raw digest
Md5Hex(msg) == <<77>> \o Md5Raw(msg)
\* Md5Digest::default(): sixteen zero bytes
ZeroDigest == <<0>>
\* Md5Digest::from_bytes
Md5Digest_from_bytes(raw) == raw

\* --------------------------------------------------------------- srf model

Part(path, length, start, checksum) ==
    [path |-> path, length |-> length, start |-> start, checksum |-> checksum]

File(path, length, checksum, type, parts) ==
    [path |-> path, length |-> length, checksum |-> checksum, type |-> type, parts |-> parts]

Mod(name, checksum, files) == [name |-> name, checksum |-> checksum, files |-> files]

\* Mod::generate_invalid: the remote's name, the zero digest, no files
generate_invalid(remote) == Mod(remote.name, ZeroDigest, <<>>)

\* the last component of a relative path
Basename(path) ==
    LET slashes == {i \in 1..Len(path) : path[i] = CH_SLASH}
    IN  IF slashes = {} THEN path
        ELSE LET k == CHOOSE i \in slashes : \A j \in slashes : j <= i
             IN  SubSeq(path, k + 1, Len(path))

\* the chunk loop of scan_file: parts of the bytes from pos on
RECURSIVE ScanFileParts(_, _, _)
ScanFileParts(base, content, pos) ==
    IF pos < Len(content)
    THEN LET end == IF pos + ChunkSize < Len(content) THEN pos + ChunkSize ELSE Len(content)
             chunk == SubSeq(content, pos + 1, end)
         IN  <<Part(base \o <<CH_USCORE>> \o NumToStr(end), end - pos, pos, Md5Hex(chunk))>>
                 \o ScanFileParts(base, content, end)
    ELSE <<>>

\* scan_file: a plain file of the given relative path and content
FileOfParts(path, length, parts) ==
    File(path, length, Md5Hex(Concat([i \in 1..Len(parts) |-> parts[i].checksum])),
         "File", parts)

\* scan_file that hashes the file as one part, whatever its length
scan_file_one_part(path, content) ==
    FileOfParts(path, Len(content),
                <<Part(Basename(path) \o <<CH_USCORE>> \o NumToStr(Len(content)),
                       Len(content), 0, Md5Hex(content))>>)

scan_file(path, content) ==
    FileOfParts(path, Len(content), ScanFileParts(Basename(path), content, 0))

\* recurse: the files of a directory in the order the walk discovers them;
\* entries is that order, a sequence of [path, content]; mod.srf is filtered out
ScanEach(kept) == [i \in 1..Len(kept) |-> scan_file(kept[i].path, kept[i].content)]

recurse(entries) ==
    ScanEach(SelectSeq(entries, LAMBDA e : Basename(e.path) # Str_mod_srf))

\* slice::sort_by with the uppercased path as key: a stable sort
SortInsert(sorted, f) ==
    LET after == {i \in 1..Len(sorted) : StrCmp(ToUpper(sorted[i].path), ToUpper(f.path)) = 1}
        k == IF after = {} THEN Len(sorted) + 1
             ELSE CHOOSE i \in after : \A j \in after : i <= j
    IN  SubSeq(sorted, 1, k - 1) \o <<f>> \o SubSeq(sorted, k, Len(sorted))

RECURSIVE SortFrom(_, _)
SortFrom(sorted, rest) ==
    IF rest = <<>> THEN sorted ELSE SortFrom(SortInsert(sorted, Head(rest)), Tail(rest))

sort_by_upper_path(files) == SortFrom(<<>>, files)

\* the mod checksum: MD5 over, per file in order, checksum then lowercased path
ModChecksum(files) ==
    Md5Digest_from_bytes(Md5Raw(Concat(
        [i \in 1..Len(files) |->
            files[i].checksum \o ReplaceBackslash(ToLower(files[i].path))])))

\* scan_mod: dirname is the last component of the directory's path
ModOfFiles(name, files) == Mod(name, ModChecksum(files), files)

scan_mod(dirname, entries) ==
    ModOfFiles(ToLower(dirname), sort_by_upper_path(recurse(entries)))

\* ------------------------------------------------------------ legacy codec

\* hex::encode_upper of a digest (Md5Digest's Serialize)
DigestHex(d) == IF d = ZeroDigest THEN <<48, 48>> ELSE <<77>> \o d

\* Md5Digest::new / Md5Digest's Deserialize: hex::decode_to_slice
DigestFromHex(s) ==
    IF s = <<48, 48>> THEN [ok |-> TRUE, val |-> ZeroDigest]
    ELSE IF Len(s) >= 1 /\ s[1] = 77 /\ (\A i \in 2..Len(s) : s[i] # 0)
         THEN [ok |-> TRUE, val |-> Tail(s)]
         ELSE [ok |-> FALSE, val |-> ZeroDigest]

\* str::split(':')
RECURSIVE Split(_)
Split(s) ==
    LET colons == {i \in 1..Len(s) : s[i] = CH_COLON}
    IN  IF colons = {} THEN <<s>>
        ELSE LET k == CHOOSE i \in colons : \A j \in colons : i <= j
             IN  <<SubSeq(s, 1, k - 1)>> \o Split(SubSeq(s, k + 1, Len(s)))

\* str::parse for u32 and u64: decimal digits, an optional leading '+'
RECURSIVE DigitsValue(_)
DigitsValue(s) ==
    IF s = <<>> THEN 0 ELSE 10 * DigitsValue(SubSeq(s, 1, Len(s) - 1)) + (s[Len(s)] - 48)

ParseNum(s) ==
    LET digits == IF Len(s) >= 1 /\ s[1] = 43 THEN Tail(s) ELSE s
    IN  IF digits # <<>> /\ (\A i \in 1..Len(digits) : digits[i] \in 48..57)
        THEN [ok |-> TRUE, val |-> DigitsValue(digits)]
        ELSE [ok |-> FALSE, val |-> 0]

NoMod == Mod(<<>>, ZeroDigest, <<>>)
NoFile == File(<<>>, 0, <<>>, "File", <<>>)
NoPart == Part(<<>>, 0, 0, <<>>)

\* FileType::from_legacy_srf
FileType_from_legacy_srf(t) ==
    IF t = Str_PBO THEN [ok |-> TRUE, val |-> "Pbo"]
    ELSE IF t = Str_FILE THEN [ok |-> TRUE, val |-> "File"]
    ELSE [ok |-> FALSE, val |-> "File"]

\* read_legacy_srf_addon: kind is "ok", "err" or "panic" (wrong magic)
AddonErr == [kind |-> "err", mod |-> NoMod, size |-> 0]

AddonOfFields(f) ==
    IF f[1] # Str_ADDON THEN [kind |-> "panic", mod |-> NoMod, size |-> 0]
    ELSE IF Len(f) < 3 THEN AddonErr
    ELSE IF ~ParseNum(f[3]).ok THEN AddonErr
    ELSE IF Len(f) < 4 THEN AddonErr
    ELSE IF ~DigestFromHex(f[4]).ok THEN AddonErr
    ELSE [kind |-> "ok",
          mod |-> Mod(f[2], DigestFromHex(f[4]).val, <<>>),
          size |-> ParseNum(f[3]).val]

read_legacy_srf_addon(line) == AddonOfFields(Split(line))

\* read_legacy_srf_part
PartOfFields(f) ==
    IF Len(f) < 4 \/ ~ParseNum(f[2]).ok \/ ~ParseNum(f[3]).ok
    THEN [kind |-> "err", part |-> NoPart]
    ELSE [kind |-> "ok",
          part |-> Part(f[1], ParseNum(f[3]).val, ParseNum(f[2]).val, f[4])]

read_legacy_srf_part(line) == PartOfFields(Split(line))

\* the part loop of read_legacy_srf_file: n more part lines off the iterator
PartsCons(p, more) ==
    [kind |-> more.kind,
     parts |-> IF more.kind = "ok" THEN <<p.part>> \o more.parts ELSE <<>>,
     rest |-> more.rest]

RECURSIVE ReadLegacyParts(_, _)
ReadLegacyPartsNext(n, p, lines) ==
    IF p.kind # "ok" THEN [kind |-> "err", parts |-> <<>>, rest |-> Tail(lines)]
    ELSE PartsCons(p, ReadLegacyParts(n - 1, Tail(lines)))

ReadLegacyParts(n, lines) ==
    IF n = 0 THEN [kind |-> "ok", parts |-> <<>>, rest |-> lines]
    ELSE IF lines = <<>> THEN [kind |-> "err", parts |-> <<>>, rest |-> lines]
    ELSE ReadLegacyPartsNext(n, read_legacy_srf_part(Head(lines)), lines)

\* read_legacy_srf_file: the file line, then part_count part lines
FileErr(lines) == [kind |-> "err", file |-> NoFile, rest |-> lines]

FileOfFieldsAndParts(f, ps, lines) ==
    IF ps.kind # "ok" THEN FileErr(lines)
    ELSE [kind |-> "ok",
          file |-> File(f[2], ParseNum(f[3]).val, f[5],
                        FileType_from_legacy_srf(f[1]).val, ps.parts),
          rest |-> ps.rest]

FileOfFields(f, lines) ==
    IF ~FileType_from_legacy_srf(f[1]).ok THEN FileErr(lines)
    ELSE IF Len(f) < 5 \/ ~ParseNum(f[3]).ok \/ ~ParseNum(f[4]).ok THEN FileErr(lines)
    ELSE FileOfFieldsAndParts(f, ReadLegacyParts(ParseNum(f[4]).val, lines), lines)

read_legacy_srf_file(line, lines) == FileOfFields(Split(line), lines)

\* the file loop of deserialize_legacy_srf: the files it pushes
FilesCons(r, more) ==
    [kind |-> more.kind,
     files |-> IF more.kind = "ok" THEN <<r.file>> \o more.files ELSE <<>>]

RECURSIVE ReadLegacyFiles(_, _)
ReadLegacyFilesNext(n, r) ==
    IF r.kind # "ok" THEN [kind |-> "err", files |-> <<>>]
    ELSE FilesCons(r, ReadLegacyFiles(n - 1, r.rest))

ReadLegacyFiles(n, lines) ==
    IF n = 0 THEN [kind |-> "ok", files |-> <<>>]
    ELSE IF lines = <<>> THEN [kind |-> "err", files |-> <<>>]
    ELSE ReadLegacyFilesNext(n, read_legacy_srf_file(Head(lines), Tail(lines)))

\* deserialize_legacy_srf: rewinds to the first line, reads the addon line and
\* file_count files into the local `files`, and returns the addon as
\* read_legacy_srf_addon built it (srf.rs:491 `Ok(addon)`, files: Vec::new())
LegacyResult(addon, fs) ==
    IF fs.kind # "ok" THEN [kind |-> "err", mod |-> NoMod]
    ELSE [kind |-> "ok", mod |-> addon]

DeserializeAfterAddon(a, lines) ==
    IF a.kind # "ok" THEN [kind |-> a.kind, mod |-> NoMod]
    ELSE LegacyResult(a.mod, ReadLegacyFiles(a.size, Tail(lines)))

deserialize_legacy_srf(lines) ==
    IF lines = <<>> THEN [kind |-> "err", mod |-> NoMod]
    ELSE DeserializeAfterAddon(read_legacy_srf_addon(Head(lines)), lines)

\* the legacy encoding of a mod, by the grammar of the format:
\*   ADDON:<name>:<file_count>:<mod_checksum_hex>
\*   <FILE|PBO>:<path>:<length>:<part_count>:<file_checksum_hex>
\*   <path>:<start>:<length>:<checksum_hex>
JoinColon(fields) ==
    Concat([i \in 1..Len(fields) |->
        IF i = 1 THEN fields[i] ELSE <<CH_COLON>> \o fields[i]])

EncodeLegacyPart(p) ==
    JoinColon(<<p.path, NumToStr(p.start), NumToStr(p.length), p.checksum>>)

EncodeLegacyFile(f) ==
    <<JoinColon(<<IF f.type = "Pbo" THEN Str_PBO ELSE Str_FILE, f.path,
                  NumToStr(f.length), NumToStr(Len(f.parts)), f.checksum>>)>>
    \o [i \in 1..Len(f.parts) |-> EncodeLegacyPart(f.parts[i])]

encode_legacy_srf(m) ==
    <<JoinColon(<<Str_ADDON, m.name, NumToStr(Len(m.files)), DigestHex(m.checksum)>>)>>
    \o Concat([i \in 1..Len(m.files) |-> EncodeLegacyFile(m.files[i])])

\* -------------------------------------------------------------- json codec

\* serde's Serialize for Part, File and Mod: PascalCase keys, the digest as
\* uppercase hex, the path as its string, the type as its Swifty name
PartToJson(p) ==
    [Path |-> p.path, Length |-> p.length, Start |-> p.start, Checksum |-> p.checksum]

FileToJson(f) ==
    [Path |-> f.path, Length |-> f.length, Checksum |-> f.checksum,
     Type |-> IF f.type = "Pbo" THEN "SwiftyPboFile" ELSE "SwiftyFile",
     Parts |-> [i \in 1..Len(f.parts) |-> PartToJson(f.parts[i])]]

ModToJson(m) ==
    [Name |-> m.name, Checksum |-> DigestHex(m.checksum),
     Files |-> [i \in 1..Len(m.files) |-> FileToJson(m.files[i])]]

\* serde's Deserialize: deserialize_relative_pathbuf replaces '\\' by '/'
deserialize_relative_pathbuf(s) == ReplaceBackslash(s)

PartFromJson(j) == Part(j.Path, j.Length, j.Start, j.Checksum)

FileFromJson(j) ==
    File(deserialize_relative_pathbuf(j.Path), j.Length, j.Checksum,
         IF j.Type = "SwiftyPboFile" THEN "Pbo" ELSE "File",
         [i \in 1..Len(j.Parts) |-> PartFromJson(j.Parts[i])])

ModFromJson(j) ==
    IF ~DigestFromHex(j.Checksum).ok THEN [kind |-> "err", mod |-> NoMod]
    ELSE [kind |-> "ok",
          mod |-> Mod(j.Name, DigestFromHex(j.Checksum).val,
                      [i \in 1..Len(j.Files) |-> FileFromJson(j.Files[i])])]

\* detection of the legacy encoding: the first five bytes are "ADDON".  An SRF
\* document is [kind, body]: kind "text" with body the lines, kind "json" with
\* body the one JSON value (its text starts with '{'), kind "none" for no file
is_legacy_srf(w) ==
    /\ w.kind = "text"
    /\ w.body # <<>>
    /\ Len(w.body[1]) >= 5
    /\ SubSeq(w.body[1], 1, 5) = Str_ADDON

\* the dispatch of diff_mod: legacy decoder when detected, serde_json otherwise
decode_srf(w) ==
    IF is_legacy_srf(w) THEN deserialize_legacy_srf(w.body)
    ELSE IF w.kind = "json" THEN ModFromJson(w.body[1])
    ELSE [kind |-> "err", mod |-> NoMod]

JsonDoc(m) == [kind |-> "json", body |-> <<ModToJson(m)>>]
LegacyDoc(m) == [kind |-> "text", body |-> encode_legacy_srf(m)]
NoDoc == [kind |-> "none", body |-> <<>>]

\* --------------------------------------------------------------------- PBO

\* the most directory entries, after the Vers record, of the PBOs scanned
MaxPboEntries == 2
\* stands for 2^64, the modulus of u64 arithmetic, scaled down
U64Wrap == 1048576

\* the entry type tags of PboEntry::read
TagVers == 1449489011
TagCprs == 1131442803
TagEnco == 1164862322
TagNone == 0

EntryType(tag) ==
    CASE tag = TagVers -> "Vers"
      [] tag = TagCprs -> "Cprs"
      [] tag = TagEnco -> "Enco"
      [] tag = TagNone -> "None"
      [] OTHER -> "unknown"

PboEntry(filename, type, original_size, offset, timestamp, data_size) ==
    [filename |-> filename, type |-> type, original_size |-> original_size,
     offset |-> offset, timestamp |-> timestamp, data_size |-> data_size]

NoPboEntry == PboEntry(<<>>, "None", 0, 0, 0, 0)

\* a cursor position as a natural number
Min(a, b) == IF a < b THEN a ELSE b

\* ReadBytesExt::read_u32::<LittleEndian> at the cursor
U32At(bytes, pos) ==
    bytes[pos + 1] + 256 * bytes[pos + 2] + 65536 * bytes[pos + 3] + 16777216 * bytes[pos + 4]

read_u32(bytes, pos) ==
    IF pos + 4 <= Len(bytes)
    THEN [kind |-> "ok", val |-> U32At(bytes, pos), pos |-> pos + 4]
    ELSE [kind |-> "err", val |-> 0, pos |-> Len(bytes)]

\* read_string: read_until(b'\0'), then CStr::from_bytes_with_nul_unchecked.
\* When the input ends before a NUL the buffer does not end in NUL and the
\* unchecked constructor is undefined behaviour; ub is the outcome the build
\* gives: "panic" (the process dies) or "lossy" (to_bytes drops the last byte
\* of what was read)
StringUpTo(bytes, pos, nul) ==
    [kind |-> "ok", str |-> SubSeq(bytes, pos + 1, nul - 1), pos |-> nul]

UnterminatedString(bytes, pos, ub) ==
    IF ub = "panic" THEN [kind |-> "panic", str |-> <<>>, pos |-> Len(bytes)]
    ELSE [kind |-> "ok", str |-> SubSeq(bytes, pos + 1, Len(bytes) - 1), pos |-> Len(bytes)]

NulsAfter(bytes, pos) == {i \in (pos + 1)..Len(bytes) : bytes[i] = 0}

FirstOf(S) == CHOOSE i \in S : \A j \in S : i <= j

read_string(bytes, pos, ub) ==
    IF NulsAfter(bytes, pos) = {} THEN UnterminatedString(bytes, pos, ub)
    ELSE StringUpTo(bytes, pos, FirstOf(NulsAfter(bytes, pos)))

\* PboEntry::read: filename, type tag (an unknown tag is panic!()), then four
\* u32 fields; a short read is Err("read failure")
EntryFailed(kind, pos) == [kind |-> kind, entry |-> NoPboEntry, pos |-> pos]

EntryFields(bytes, filename, type, pos) ==
    IF pos + 16 > Len(bytes) THEN EntryFailed("err", Len(bytes))
    ELSE [kind |-> "ok",
          entry |-> PboEntry(filename, type, U32At(bytes, pos), U32At(bytes, pos + 4),
                             U32At(bytes, pos + 8), U32At(bytes, pos + 12)),
          pos |-> pos + 16]

EntryAfterTag(bytes, filename, t) ==
    IF t.kind # "ok" THEN EntryFailed("err", t.pos)
    ELSE IF EntryType(t.val) = "unknown" THEN EntryFailed("panic", t.pos)
    ELSE EntryFields(bytes, filename, EntryType(t.val), t.pos)

EntryAfterName(bytes, s) ==
    IF s.kind # "ok" THEN EntryFailed(s.kind, s.pos)
    ELSE EntryAfterTag(bytes, s.str, read_u32(bytes, s.pos))

PboEntry_read(bytes, pos, ub) == EntryAfterName(bytes, read_string(bytes, pos, ub))

\* read_extensions: key and value strings until an empty key
RECURSIVE read_extensions(_, _, _)
ExtInsert(key, value, more) ==
    IF more.kind # "ok" THEN more
    ELSE [more EXCEPT !.map = more.map @@ (key :> value)]

ExtAfterValue(bytes, key, v, ub) ==
    IF v.kind # "ok" THEN [kind |-> v.kind, map |-> <<>>, pos |-> v.pos]
    ELSE ExtInsert(key, v.str, read_extensions(bytes, v.pos, ub))

ExtAfterKey(bytes, k, ub) ==
    IF k.kind # "ok" THEN [kind |-> k.kind, map |-> <<>>, pos |-> k.pos]
    ELSE IF k.str = <<>> THEN [kind |-> "ok", map |-> <<>>, pos |-> k.pos]
    ELSE ExtAfterValue(bytes, k.str, read_string(bytes, k.pos, ub), ub)

read_extensions(bytes, pos, ub) == ExtAfterKey(bytes, read_string(bytes, pos, ub), ub)

\* the entry loop of Pbo::read: entries until the (None, "") record
RECURSIVE ReadEntries(_, _, _)
EntriesCons(e, more) ==
    IF more.kind # "ok" THEN more
    ELSE [more EXCEPT !.entries = <<e>> \o more.entries]

EntriesAfterRead(bytes, r, ub) ==
    IF r.kind # "ok" THEN [kind |-> r.kind, entries |-> <<>>, pos |-> r.pos]
    ELSE IF r.entry.type = "None" /\ r.entry.filename = <<>>
    THEN [kind |-> "ok", entries |-> <<>>, pos |-> r.pos]
    ELSE EntriesCons(r.entry, ReadEntries(bytes, r.pos, ub))

ReadEntries(bytes, pos, ub) == EntriesAfterRead(bytes, PboEntry_read(bytes, pos, ub), ub)

\* Pbo::read: the header record, which must be ("", Vers) or the process
\* panics, the extensions, the entries; header_len is the position reached
PboFailed(kind) ==
    [kind |-> kind, header |-> NoPboEntry, header_len |-> 0, extensions |-> <<>>,
     entries |-> <<>>]

PboOfEntries(header, ext, es) ==
    IF es.kind # "ok" THEN PboFailed(es.kind)
    ELSE [kind |-> "ok", header |-> header, header_len |-> es.pos,
          extensions |-> ext.map, entries |-> es.entries]

PboAfterExtensions(bytes, header, ext, ub) ==
    IF ext.kind # "ok" THEN PboFailed(ext.kind)
    ELSE PboOfEntries(header, ext, ReadEntries(bytes, ext.pos, ub))

PboAfterHeader(bytes, h, ub) ==
    IF h.kind # "ok" THEN PboFailed(h.kind)
    ELSE IF h.entry.filename # <<>> \/ h.entry.type # "Vers" THEN PboFailed("panic")
    ELSE PboAfterExtensions(bytes, h.entry, read_extensions(bytes, h.pos, ub), ub)

Pbo_read(bytes, ub) == PboAfterHeader(bytes, PboEntry_read(bytes, 0, ub), ub)

\* generate_hash: the hash of the next len bytes of the input, or of what is
\* left of it, and the cursor after them
generate_hash(bytes, pos, len) ==
    [hash |-> Md5Hex(SubSeq(bytes, pos + 1, Min(pos + len, Len(bytes)))),
     pos |-> Min(pos + len, Len(bytes))]

Str_HEADER == <<36, 36, 72, 69, 65, 68, 69, 82, 36, 36>>
Str_END == <<36, 36, 69, 78, 68, 36, 36>>

\* the entry loop of scan_pbo over pbo.entries.iter().skip(1)
RECURSIVE PboEntryParts(_, _, _, _)
PboEntryPart(bytes, entries, h, offset) ==
    <<Part(Head(entries).filename, Head(entries).data_size, offset, h.hash)>>
        \o PboEntryParts(bytes, Tail(entries), h.pos, offset + Head(entries).data_size)

PboEntryParts(bytes, entries, pos, offset) ==
    IF entries = <<>> THEN <<>>
    ELSE PboEntryPart(bytes, entries, generate_hash(bytes, pos, Head(entries).data_size), offset)

RECURSIVE SumDataSize(_)
SumDataSize(entries) ==
    IF entries = <<>> THEN 0 ELSE Head(entries).data_size + SumDataSize(Tail(entries))

\* skip(1) of a sequence
Skip1(q) == IF q = <<>> THEN <<>> ELSE Tail(q)

PboFile(kind, path, length, parts) ==
    [kind |-> kind,
     file |-> File(path, length, Md5Hex(Concat([i \in 1..Len(parts) |-> parts[i].checksum])),
                   "Pbo", parts)]

\* the $$END$$ part: length - offset in u64.  When offset is the larger the
\* subtraction overflows: a panic with overflow checks on (ovf = "panic"), the
\* wrapped difference with them off (ovf = "wrap"); the hash is then of no bytes
PboEnd(bytes, path, parts, offset, ovf) ==
    IF Len(bytes) >= offset
    THEN PboFile("ok", path, Len(bytes),
                 parts \o <<Part(Str_END, Len(bytes) - offset, offset,
                                 Md5Hex(SubSeq(bytes, Min(offset, Len(bytes)) + 1, Len(bytes))))>>)
    ELSE IF ovf = "panic" THEN PboFile("panic", path, Len(bytes), <<>>)
    ELSE PboFile("ok", path, Len(bytes),
                 parts \o <<Part(Str_END, U64Wrap + Len(bytes) - offset, offset, Md5Hex(<<>>))>>)

PboParts(bytes, path, pbo, ovf) ==
    PboEnd(bytes, path,
           <<Part(Str_HEADER, pbo.header_len, 0, generate_hash(bytes, 0, pbo.header_len).hash)>>
               \o PboEntryParts(bytes, Skip1(pbo.entries), pbo.header_len, pbo.header_len),
           pbo.header_len + SumDataSize(Skip1(pbo.entries)), ovf)

ScanPboOf(bytes, path, pbo, ovf) ==
    IF pbo.kind # "ok" THEN PboFile(pbo.kind, path, 0, <<>>)
    ELSE PboParts(bytes, path, pbo, ovf)

\* scan_pbo of the file at the relative path with the given bytes
scan_pbo(path, bytes, ub, ovf) == ScanPboOf(bytes, path, Pbo_read(bytes, ub), ovf)

\* the on-wire form of a directory record, as PboEntry::read reads it
EncodeU32(n) == <<n % 256, (n \div 256) % 256, (n \div 65536) % 256, n \div 16777216>>

EncodeRecord(r) ==
    r.filename \o <<0>> \o EncodeU32(r.tag) \o EncodeU32(0) \o EncodeU32(0) \o EncodeU32(0)
        \o EncodeU32(r.data_size)

Record(filename, tag, data_size) == [filename |-> filename, tag |-> tag, data_size |-> data_size]

\* the extensions block: (key, value) pairs, then an empty key
EncodeExtensions(pairs) ==
    Concat([i \in 1..Len(pairs) |-> pairs[i] \o <<0>>]) \o <<0>>

\* a PBO: the first record, the extensions, the entries, the terminator, the
\* payload; cut bytes are missing from its end
EncodePbo(first, ext, entries, payload, cut) ==
    LET all == EncodeRecord(first) \o EncodeExtensions(ext)
                   \o Concat([i \in 1..Len(entries) |-> EncodeRecord(entries[i])])
                   \o EncodeRecord(Record(<<>>, TagNone, 0)) \o payload
    IN  SubSeq(all, 1, Len(all) - Min(cut, Len(all)))

\* the records of the PBOs scanned: named "p" or "q", of a known type or of the
\* unknown tag 1, with two payload bytes or none
PboRecords ==
    {Record(n, t, ds) : n \in {<<112>>, <<113>>}, t \in {TagNone, TagCprs, 1}, ds \in {0, 2}}

PboDirs == UNION {[1..n -> PboRecords] : n \in 0..MaxPboEntries}

\* the first record: ("", Vers), or one with an unknown tag, or a named one
PboFirsts == {Record(<<>>, TagVers, 0), Record(<<>>, 1, 0), Record(<<112>>, TagEnco, 0)}

PboExts == {<<>>, <<<<107>>, <<118>>>>}
PboPayloads == {<<>>, <<7>>, <<7, 8, 9>>}
PboCuts == {0, 2, 21}

Path_pbo == <<120, 46, 112, 98, 111>>

NoPboState ==
    [phase |-> "off", bytes |-> <<>>, first |-> Record(<<>>, TagVers, 0), dir |-> <<>>,
     cut |-> 0, pbo |-> PboFailed("err"), scanned |-> PboFile("err", <<>>, 0, <<>>)]

\* ----------------------------------------------------------- the universe

\* the permutations of a finite set, as sequences
Perms(S) ==
    {s \in [1..Cardinality(S) -> S] : \A i, j \in 1..Cardinality(S) : i # j => s[i] # s[j]}

Range(s) == {s[i] : i \in 1..Len(s)}

\* how many times the remote may publish a new revision
MaxPublish == 1

Name_A == <<CH_AT, 65>>
Name_a == <<CH_AT, 97>>
Name_b == <<CH_AT, 98>>
\* the directory names under the local base path
DirNames == {Name_A, Name_a, Name_b}

Path_x == <<120>>
Path_y == <<121>>
SyncPaths == {Path_x, Path_y}
PathOrders == Perms(SyncPaths)

Bytes_1 == <<49, 49>>
Bytes_2 == <<50, 50>>

\* a directory's files in one fixed walk order (byte order of the paths)
RECURSIVE DirEntries(_)
DirEntries(files) ==
    IF DOMAIN files = {} THEN <<>>
    ELSE LET p == CHOOSE q \in DOMAIN files : \A r \in DOMAIN files : StrCmp(q, r) <= 0
         IN  <<[path |-> p, content |-> files[p]]>>
                 \o DirEntries([q \in DOMAIN files \ {p} |-> files[q]])

NoDir == [exists |-> FALSE, files |-> <<>>, srf |-> NoDoc]
DirWith(files) == [exists |-> TRUE, files |-> files, srf |-> NoDoc]

\* a remote mod as an honest publisher serves it: the SRF is generated from the
\* files served, under the name srfName, and sent in the encoding enc
RemoteModServing(m, enc, files) ==
    [srfMod |-> m,
     srf |-> IF enc = "legacy" THEN LegacyDoc(m) ELSE JsonDoc(m),
     files |-> files]

RemoteModOf(mod_name, srfName, enc, files) ==
    RemoteModServing([scan_mod(mod_name, DirEntries(files)) EXCEPT !.name = srfName],
                     enc, files)

RepoMod(mod_name, rm) == [mod_name |-> mod_name, checksum |-> rm.srfMod.checksum]

RemoteFilesA == {(Path_x :> Bytes_1), (Path_x :> Bytes_2) @@ (Path_y :> Bytes_1)}
RemoteModsA ==
    {RemoteModOf(Name_A, n, e, f) : n \in {Name_A, Name_a}, e \in {"json", "legacy"},
                                    f \in RemoteFilesA}
\* a remote mod whose mod.srf is neither legacy text nor JSON
CorruptDoc == [kind |-> "text", body |-> <<<<63>>>>]
RemoteModCorrupt ==
    [RemoteModOf(Name_A, Name_A, "json", (Path_x :> Bytes_1)) EXCEPT !.srf = CorruptDoc]

RemoteModB == RemoteModOf(Name_b, Name_b, "json", (Path_x :> Bytes_1))

\* repo.json and what the server holds
RemoteOf(ra, shape) ==
    LET a == RepoMod(Name_A, ra)
        b == RepoMod(Name_b, RemoteModB)
    IN  [repo |-> [checksum |-> <<82>>,
                   required_mods |-> CASE shape = 1 -> <<a>>
                                       [] shape = 2 -> <<a, b>>
                                       [] OTHER -> <<b, a>>,
                   optional_mods |-> IF shape = 1 THEN <<b>> ELSE <<>>],
         mods |-> (Name_A :> ra) @@ (Name_b :> RemoteModB)]

Remotes == {RemoteOf(ra, shape) : ra \in RemoteModsA \cup {RemoteModCorrupt}, shape \in 1..3}

\* the local base directory before the first run: no cache file, no mod.srf
InitialDisks ==
    {(Name_A :> da) @@ (Name_a :> NoDir) @@ (Name_b :> db) :
        da \in {NoDir, DirWith((Path_y :> Bytes_1))},
        db \in {NoDir, DirWith((Path_x :> Bytes_1))}}

VARIABLES
    disk,               \* the local base path: directory name -> [exists, files, srf]
    cacheFile,          \* <base>/nimble-cache.json: [exists, cache]
    remote,             \* the repository server: [repo, mods]
    pc,                 \* where sync is
    dry_run,            \* sync's dry_run argument
    mod_cache,          \* sync's in-memory ModCache
    check,              \* the candidates diff_repo returned
    next_mod,           \* the index into check of the diff and rescan loops
    download_commands,  \* the commands gathered so far
    next_cmd,           \* the index of the command execute_command_list is at
    temp_download_file, \* the bytes received into the temporary file
    body_left,          \* the bytes of the response not yet received
    exec_res,           \* the result of execute_command_list: "ok" or "err"
    hist,               \* history of the run, for stating the properties
    sc,                 \* the scanner specification's state
    cd,                 \* the codec specification's state
    df,                 \* the mod-level differ specification's state
    lg,                 \* the legacy detector specification's state
    pb,                 \* the PBO specification's state
    sf,                 \* the plain-file scan specification's state
    gs                  \* the cache opening specification's state

syncVars == <<disk, cacheFile, remote, pc, dry_run, mod_cache, check, next_mod,
              download_commands, next_cmd, temp_download_file, body_left, exec_res, hist>>
unitVars == <<lg, pb, sf, gs>>
vars == <<syncVars, sc, cd, df, unitVars>>

\* --------------------------------------------------------------- mod cache

EmptyMap == [k \in {} |-> [name |-> <<>>]]

\* ModCache::new_empty
ModCache_new_empty == [version |-> 1, mods |-> EmptyMap]

\* ModCache::remove
ModCache_remove(cache, checksum) ==
    [cache EXCEPT !.mods = [k \in DOMAIN cache.mods \ {checksum} |-> cache.mods[k]]]

\* ModCache::insert: keyed by the mod's checksum, the value is From<srf::Mod>
ModCache_insert(cache, m) ==
    [cache EXCEPT !.mods = [k \in DOMAIN cache.mods \cup {m.checksum} |->
                               IF k = m.checksum THEN [name |-> m.name] ELSE cache.mods[k]]]

\* <base>/nimble-cache.json: absent, or holding a cache; fault is "none" for a
\* file that opens and parses, "open" for one File::open fails on with an error
\* other than NotFound, "parse" for one serde_json rejects
NoCacheFile == [exists |-> FALSE, fault |-> "none", cache |-> ModCache_new_empty]

\* ModCache::to_disk: File::create and serde_json::to_writer
ModCache_to_disk(cache) == [exists |-> TRUE, fault |-> "none", cache |-> cache]

CacheErr(error, not_found) ==
    [kind |-> "err", error |-> error, not_found |-> not_found, cache |-> ModCache_new_empty]

CacheOk(cache) == [kind |-> "ok", error |-> "none", not_found |-> FALSE, cache |-> cache]

\* ModCache::from_disk_or_empty
from_disk_or_empty(cf) ==
    IF ~cf.exists THEN CacheOk(ModCache_new_empty)
    ELSE IF cf.fault = "open" THEN CacheErr("FileOpen", FALSE)
    ELSE IF cf.fault = "parse" THEN CacheErr("Deserialization", FALSE)
    ELSE CacheOk(cf.cache)

\* ModCache::from_disk, which open_cache_or_gen_srf calls: load the cache, a
\* file that is not there being Error::FileOpen with the kind NotFound
from_disk(cf) ==
    IF ~cf.exists THEN CacheErr("FileOpen", TRUE)
    ELSE from_disk_or_empty(cf)

\* ----------------------------------------------------------------- gen_srf

\* gen_srf_for_mod: scan, then File::create(<dir>/mod.srf).unwrap(), which
\* panics when the directory does not exist (scan_mod of a missing directory
\* is Ok with no files: the walk's error entry is filtered out)
WriteModSrf(d, dirname, generated_srf) ==
    IF ~d[dirname].exists
    THEN [kind |-> "panic", srf |-> generated_srf, disk |-> d]
    ELSE [kind |-> "ok", srf |-> generated_srf,
          disk |-> [d EXCEPT ![dirname].srf = JsonDoc(generated_srf)]]

gen_srf_for_mod(d, dirname) ==
    WriteModSrf(d, dirname, scan_mod(dirname, DirEntries(d[dirname].files)))

\* the directories gen_srf walks: depth 1, a directory, the name starts with '@'
AtDirs(d) == {n \in DOMAIN d : d[n].exists /\ n[1] = CH_AT}

\* gen_srf: order is the order in which the tasks' results are collected
RECURSIVE GenSrfFold(_, _, _)
GenSrfCollect(r, cache, order) ==
    GenSrfFold(r.disk, ModCache_insert(cache, r.srf), Tail(order))

GenSrfFold(d, cache, order) ==
    IF order = <<>> THEN [disk |-> d, cache |-> cache]
    ELSE GenSrfCollect(gen_srf_for_mod(d, Head(order)), cache, order)

\* ModCache::to_disk of what gen_srf collected
GenSrfToDisk(r) == [disk |-> r.disk, cacheFile |-> ModCache_to_disk(r.cache)]

gen_srf(d, order) == GenSrfToDisk(GenSrfFold(d, ModCache_new_empty, order))

\* ModCache::from_disk_or_empty after the rebuild
Opened(r, d, cf) ==
    [kind |-> r.kind, error |-> r.error, cache |-> r.cache, disk |-> d, cacheFile |-> cf]

OpenRebuilt(g) == Opened(from_disk_or_empty(g.cacheFile), g.disk, g.cacheFile)

\* open_cache_or_gen_srf: the cache on disk, a full rebuild when it is not
\* found, the error when it cannot be opened or parsed
OpenAfterFromDisk(d, cf, order, r) ==
    IF r.kind = "ok" THEN Opened(r, d, cf)
    ELSE IF r.error = "FileOpen" /\ r.not_found THEN OpenRebuilt(gen_srf(d, order))
    ELSE Opened(r, d, cf)

\* open_cache_or_gen_srf that loads the cache or an empty one and never rebuilds
open_cache_no_rebuild(d, cf, order) == Opened(from_disk_or_empty(cf), d, cf)

open_cache_or_gen_srf(d, cf, order) == OpenAfterFromDisk(d, cf, order, from_disk(cf))

\* ------------------------------------------------------------------ differ

\* diff_repo: the required mods whose checksum is no key of the cache
RECURSIVE diff_repo_loop(_, _)
diff_repo_loop(mod_cache_, mods) ==
    IF mods = <<>> THEN <<>>
    ELSE (IF Head(mods).checksum \notin DOMAIN mod_cache_.mods THEN <<Head(mods)>> ELSE <<>>)
             \o diff_repo_loop(mod_cache_, Tail(mods))

diff_repo_all_mods(mod_cache_, remote_repo) ==
    diff_repo_loop(mod_cache_, remote_repo.required_mods \o remote_repo.optional_mods)

diff_repo(mod_cache_, remote_repo) == diff_repo_loop(mod_cache_, remote_repo.required_mods)

\* the loop of sync that removes every candidate's checksum from the cache
RECURSIVE RemoveAll(_, _)
RemoveAll(cache, mods) ==
    IF mods = <<>> THEN cache
    ELSE RemoveAll(ModCache_remove(cache, Head(mods).checksum), Tail(mods))

\* a HashMap filled from a Vec<File> by path: a later file replaces an earlier
FilesByPath(files) ==
    [p \in {files[i].path : i \in 1..Len(files)} |->
        LET idx == {i \in 1..Len(files) : files[i].path = p}
        IN  files[CHOOSE i \in idx : \A j \in idx : j <= i]]

\* the iteration order of a HashMap: its keys in the order ord lists them
KeysInOrder(keys, ord) == SelectSeq(ord, LAMBDA p : p \in keys)

DownloadCommand(file, begin, end) == [file |-> file, begin |-> begin, end |-> end]

\* the loop over remote_files.drain()
DiffCommands(remote_srf, local_files, remote_files, ord) ==
    LET needs(p) == IF p \in DOMAIN local_files
                    THEN remote_files[p].checksum # local_files[p].checksum
                    ELSE TRUE
        wanted == SelectSeq(KeysInOrder(DOMAIN remote_files, ord), needs)
    IN  [i \in 1..Len(wanted) |->
            DownloadCommand(remote_srf.name \o <<CH_SLASH>> \o wanted[i], 0,
                            remote_files[wanted[i]].length)]

\* remove_leftover_files: std::fs::remove_file of <base>/<mod.name>/<path> for
\* each file in turn; the first failure returns, what was removed stays removed
RECURSIVE remove_leftover_files(_, _, _)
remove_leftover_files(d, name, paths) ==
    IF paths = <<>> THEN [kind |-> "ok", disk |-> d]
    ELSE IF d[name].exists /\ Head(paths) \in DOMAIN d[name].files
         THEN remove_leftover_files(
                  [d EXCEPT ![name].files = [q \in DOMAIN @ \ {Head(paths)} |-> @[q]]],
                  name, Tail(paths))
         ELSE [kind |-> "err", disk |-> d]

\* the local SRF of diff_mod: mod.srf of <base>/<mod_name>, a scan when the
\* directory has none, the invalid placeholder when there is no directory
local_srf(d, mod_name, remote_srf) ==
    IF d[mod_name].exists
    THEN IF d[mod_name].srf.kind # "none"
         THEN decode_srf(d[mod_name].srf)
         ELSE [kind |-> "ok", mod |-> scan_mod(mod_name, DirEntries(d[mod_name].files))]
    ELSE [kind |-> "ok", mod |-> generate_invalid(remote_srf)]

\* lines 163-167: the leftovers are removed, then the list is returned
DiffModResult(rm, download_list) ==
    [kind |-> rm.kind,
     commands |-> IF rm.kind = "ok" THEN download_list ELSE <<>>,
     disk |-> rm.disk]

\* lines 127-167, on the two HashMaps
DiffModFiles(d, remote_srf, local_files, remote_files, ord1, ord2) ==
    DiffModResult(
        remove_leftover_files(d, remote_srf.name,
            KeysInOrder(DOMAIN local_files \ DOMAIN remote_files, ord2)),
        DiffCommands(remote_srf, local_files, remote_files, ord1))

\* lines 123-125, on the two SRFs
DiffModLocal(d, remote_srf, ldec, ord1, ord2) ==
    IF ldec.kind # "ok" THEN [kind |-> ldec.kind, commands |-> <<>>, disk |-> d]
    ELSE IF ldec.mod.checksum = remote_srf.checksum
    THEN [kind |-> "ok", commands |-> <<>>, disk |-> d]
    ELSE DiffModFiles(d, remote_srf, FilesByPath(ldec.mod.files),
                      FilesByPath(remote_srf.files), ord1, ord2)

\* lines 95-121, on the decoded remote SRF
DiffModRemote(d, remote_mod, rdec, ord1, ord2) ==
    IF rdec.kind # "ok" THEN [kind |-> rdec.kind, commands |-> <<>>, disk |-> d]
    ELSE DiffModLocal(d, rdec.mod, local_srf(d, remote_mod.mod_name, rdec.mod), ord1, ord2)

\* diff_mod: ord1 and ord2 are the iteration orders of the two HashMaps
diff_mod(d, rem, remote_mod, ord1, ord2) ==
    DiffModRemote(d, remote_mod, decode_srf(rem.mods[remote_mod.mod_name].srf), ord1, ord2)

\* ---------------------------------------------------------------- download

\* a command's file is "<dir>/<relative path>": the two sides of the first '/'
FileDir(file) ==
    LET k == CHOOSE i \in 1..Len(file) :
                 file[i] = CH_SLASH /\ \A j \in 1..(i - 1) : file[j] # CH_SLASH
    IN  SubSeq(file, 1, k - 1)

FileRel(file) == SubSeq(file, Len(FileDir(file)) + 2, Len(file))

NoDest == [exists |-> FALSE, content |-> <<>>]

\* what is at <base>/<file>
Dest(d, file) ==
    IF d[FileDir(file)].exists /\ FileRel(file) \in DOMAIN d[FileDir(file)].files
    THEN [exists |-> TRUE, content |-> d[FileDir(file)].files[FileRel(file)]]
    ELSE NoDest

\* create_dir_all of the parent, File::create, and the bytes written
WriteDest(d, file, content) ==
    [d EXCEPT ![FileDir(file)] =
        [exists |-> TRUE, files |-> (FileRel(file) :> content) @@ @.files, srf |-> @.srf]]

\* GET <repo_url>/<file>: the server resolves the directory name, also when
\* its letter case differs (a server on a case-insensitive file system)
ServerLookup(rem, file) ==
    LET hits == {m \in DOMAIN rem.mods :
                    /\ ToLower(m) = ToLower(FileDir(file))
                    /\ FileRel(file) \in DOMAIN rem.mods[m].files}
    IN  IF hits = {} THEN [found |-> FALSE, content |-> <<>>]
        ELSE [found |-> TRUE,
              content |-> rem.mods[CHOOSE m \in hits : TRUE].files[FileRel(file)]]

\* std::io::copy of the response into the temporary file, one chunk of it
StreamChunkToDest(temp, d, file, chunk) ==
    [temp |-> temp \o chunk, disk |-> WriteDest(d, file, temp \o chunk)]

StreamChunk(temp, d, file, chunk) == [temp |-> temp \o chunk, disk |-> d]

\* -------------------------------------------------------------------- sync

NoScan == [phase |-> "off", first |-> <<>>, second |-> <<>>, mod1 |-> NoMod, mod2 |-> NoMod]
NoCodec == [phase |-> "off", mod |-> NoMod, doc |-> NoDoc,
            decoded |-> [kind |-> "err", mod |-> NoMod]]
NoDiffResult == [kind |-> "err", commands |-> <<>>, disk |-> <<>>]
NoDiff == [phase |-> "off", disk |-> <<>>, remote |-> <<>>, result |-> NoDiffResult]
NoDetect == [phase |-> "off", bytes |-> <<>>, start |-> 0, pos |-> 0, res |-> "none"]
NoFileScan == [phase |-> "off", path |-> <<>>, content |-> <<>>, file |-> NoFile,
               file_len |-> 0, pos |-> 0, parts |-> <<>>, iter |-> 0]
NoGen == [phase |-> "off", disk |-> <<>>, cacheFile |-> NoCacheFile, disk1 |-> <<>>,
          cacheFile1 |-> NoCacheFile, res |-> CacheErr("none", FALSE)]
\* the specifications of single operations, not running
UnitsOff == lg = NoDetect /\ pb = NoPboState /\ sf = NoFileScan /\ gs = NoGen

HistInit(d, cf, rem) ==
    [disk0 |-> d, cacheFile0 |-> cf, loaded |-> ModCache_new_empty,
     dest0 |-> NoDest, body |-> <<>>, last |-> "none", dl_failed |-> FALSE,
     failed_cmd |-> <<>>, second |-> FALSE, firstMods |-> EmptyMap,
     prev |-> [valid |-> FALSE, remote |-> rem, mods |-> EmptyMap],
     deleted |-> FALSE, publishes |-> 0, disk_exec |-> d, diff_err |-> "none"]

\* sync before its first run, on the local base path d and the remote rem
SyncAt(d, rem) ==
    /\ disk = d
    /\ cacheFile = NoCacheFile
    /\ remote = rem
    /\ pc = "idle"
    /\ dry_run = FALSE
    /\ mod_cache = ModCache_new_empty
    /\ check = <<>>
    /\ next_mod = 1
    /\ download_commands = <<>>
    /\ next_cmd = 1
    /\ temp_download_file = <<>>
    /\ body_left = <<>>
    /\ exec_res = "ok"
    /\ hist = HistInit(d, NoCacheFile, rem)

Init ==
    /\ \E d \in InitialDisks, rem \in Remotes : SyncAt(d, rem)
    /\ sc = NoScan
    /\ cd = NoCodec
    /\ df = NoDiff
    /\ UnitsOff

\* why the run ends at the unwrap of line 260: the candidate's remote SRF does
\* not decode ("codec"), or diff_mod failed on the file system ("io")
DiffErr(kind) ==
    IF pc # "diff" \/ kind # "panic" THEN "none"
    ELSE IF decode_srf(remote.mods[check[next_mod].mod_name].srf).kind # "ok" THEN "codec"
    ELSE "io"

\* the process ends (sync returned, or a panic unwound it)
EndRun(kind, d, cf) ==
    /\ pc' = "idle"
    /\ disk' = d
    /\ cacheFile' = cf
    /\ dry_run' = FALSE
    /\ mod_cache' = ModCache_new_empty
    /\ check' = <<>>
    /\ next_mod' = 1
    /\ download_commands' = <<>>
    /\ next_cmd' = 1
    /\ temp_download_file' = <<>>
    /\ body_left' = <<>>
    /\ exec_res' = "ok"
    /\ hist' = [hist EXCEPT
                   !.last = kind,
                   !.prev = [valid |-> kind = "ok" /\ exec_res = "ok",
                             remote |-> remote,
                             mods |-> IF kind = "ok" /\ exec_res = "ok"
                                      THEN mod_cache.mods ELSE EmptyMap],
                   !.disk0 = d, !.cacheFile0 = cf, !.loaded = ModCache_new_empty,
                   !.dest0 = NoDest, !.body = <<>>, !.disk_exec = d,
                   !.diff_err = DiffErr(kind)]
    /\ UNCHANGED <<remote, sc, cd, df, unitVars>>

\* the remote publishes another revision between two runs
Publish ==
    /\ pc = "idle"
    /\ hist.publishes < MaxPublish
    /\ \E r \in Remotes \ {remote} : remote' = r
    /\ hist' = [hist EXCEPT !.publishes = @ + 1]
    /\ UNCHANGED <<disk, cacheFile, pc, dry_run, mod_cache, check, next_mod,
                   download_commands, next_cmd, temp_download_file, body_left,
                   exec_res, sc, cd, df, unitVars>>

\* sync, lines 243-255: fetch repo.json, open or generate the cache, diff_repo,
\* remove the candidates' checksums from the cache
StartWith(dr, o, chk) ==
    /\ o.kind = "ok"
    /\ dry_run' = dr
    /\ disk' = o.disk
    /\ cacheFile' = o.cacheFile
    /\ check' = chk
    /\ mod_cache' = RemoveAll(o.cache, chk)
    /\ pc' = IF chk = <<>> THEN "planned" ELSE "diff"
    /\ hist' = [hist EXCEPT
                   !.disk0 = disk, !.cacheFile0 = cacheFile, !.loaded = o.cache,
                   !.last = "running", !.dl_failed = FALSE, !.failed_cmd = <<>>,
                   !.deleted = FALSE, !.diff_err = "none", !.disk_exec = o.disk,
                   !.second = hist.prev.valid /\ hist.prev.remote = remote,
                   !.firstMods = hist.prev.mods]

StartOpened(dr, o) == StartWith(dr, o, diff_repo(o.cache, remote.repo))

Start ==
    /\ pc = "idle"
    /\ \E dr \in BOOLEAN, order \in Perms(AtDirs(disk)) :
        StartOpened(dr, open_cache_or_gen_srf(disk, cacheFile, order))
    /\ next_mod' = 1
    /\ download_commands' = <<>>
    /\ UNCHANGED <<remote, next_cmd, temp_download_file, body_left, exec_res, sc, cd, df, unitVars>>

\* one iteration of the loop at lines 259-261, diff_mod returning Ok
DiffModReturned(r) ==
    /\ r.kind = "ok"
    /\ download_commands' = download_commands \o r.commands
    /\ disk' = r.disk
    /\ hist' = [hist EXCEPT !.deleted = @ \/ r.disk # disk]

DiffModOk ==
    /\ pc = "diff"
    /\ \E ord1 \in PathOrders, ord2 \in PathOrders :
        DiffModReturned(diff_mod(disk, remote, check[next_mod], ord1, ord2))
    /\ IF next_mod = Len(check)
       THEN pc' = "planned" /\ next_mod' = 1
       ELSE pc' = "diff" /\ next_mod' = next_mod + 1
    /\ UNCHANGED <<cacheFile, remote, dry_run, mod_cache, check, next_cmd,
                   temp_download_file, body_left, exec_res, sc, cd, df, unitVars>>

\* diff_mod returning Err (or panicking): the unwrap at line 260 panics
DiffModFailed(r) ==
    /\ r.kind # "ok"
    /\ EndRun("panic", r.disk, cacheFile)

DiffModPanic ==
    /\ pc = "diff"
    /\ \E ord1 \in PathOrders, ord2 \in PathOrders :
        DiffModFailed(diff_mod(disk, remote, check[next_mod], ord1, ord2))

\* lines 265-267: the dry run returns
DryRunReturn ==
    /\ pc = "planned"
    /\ dry_run
    /\ EndRun("dry", disk, cacheFile)

\* line 269: execute_command_list is entered
BeginExec ==
    /\ pc = "planned"
    /\ ~dry_run
    /\ pc' = IF download_commands # <<>> THEN "exec"
             ELSE IF check # <<>> THEN "rescan" ELSE "persist"
    /\ next_cmd' = 1
    /\ next_mod' = 1
    /\ hist' = [hist EXCEPT !.disk_exec = disk]
    /\ UNCHANGED <<disk, cacheFile, remote, dry_run, mod_cache, check, download_commands,
                   temp_download_file, body_left, exec_res, sc, cd, df, unitVars>>

\* lines 200-206: the temporary file is created and the GET answered
HttpCallOk ==
    /\ pc = "exec"
    /\ ServerLookup(remote, download_commands[next_cmd].file).found
    /\ temp_download_file' = <<>>
    /\ body_left' = ServerLookup(remote, download_commands[next_cmd].file).content
    /\ hist' = [hist EXCEPT !.dest0 = Dest(disk, download_commands[next_cmd].file),
                            !.body = ServerLookup(remote, download_commands[next_cmd].file).content]
    /\ pc' = "recv"
    /\ UNCHANGED <<disk, cacheFile, remote, dry_run, mod_cache, check, next_mod,
                   download_commands, next_cmd, exec_res, sc, cd, df, unitVars>>

\* execute_command_list returning Err after it has put back what the base
\* path held when it was entered
ExecFailedRollback ==
    /\ exec_res' = "err"
    /\ pc' = "rescan"
    /\ next_mod' = 1
    /\ temp_download_file' = <<>>
    /\ body_left' = <<>>
    /\ disk' = hist.disk_exec
    /\ UNCHANGED <<cacheFile, remote, dry_run, mod_cache, check,
                   download_commands, next_cmd, sc, cd, df, unitVars>>

\* execute_command_list returns Err: sync reports it and goes on to the rescan
ExecFailed ==
    /\ exec_res' = "err"
    /\ pc' = "rescan"
    /\ next_mod' = 1
    /\ temp_download_file' = <<>>
    /\ body_left' = <<>>
    /\ UNCHANGED <<disk, cacheFile, remote, dry_run, mod_cache, check,
                   download_commands, next_cmd, sc, cd, df, unitVars>>

\* line 204: the request fails (no connection, an error status)
HttpCallFail ==
    /\ pc = "exec"
    /\ hist' = [hist EXCEPT !.dl_failed = TRUE,
                            !.failed_cmd = <<download_commands[next_cmd].file>>,
                            !.dest0 = Dest(disk, download_commands[next_cmd].file)]
    /\ ExecFailed

\* line 220: one more byte of the body is copied into the temporary file
Streamed(r) ==
    /\ temp_download_file' = r.temp
    /\ disk' = r.disk

RecvChunk ==
    /\ pc = "recv"
    /\ body_left # <<>>
    /\ Streamed(StreamChunk(temp_download_file, disk, download_commands[next_cmd].file,
                            <<Head(body_left)>>))
    /\ body_left' = Tail(body_left)
    /\ UNCHANGED <<cacheFile, remote, pc, dry_run, mod_cache, check, next_mod,
                   download_commands, next_cmd, exec_res, hist, sc, cd, df, unitVars>>

\* line 220: the stream fails before the body is complete
StreamFail ==
    /\ pc = "recv"
    /\ body_left # <<>>
    /\ hist' = [hist EXCEPT !.dl_failed = TRUE,
                            !.failed_cmd = <<download_commands[next_cmd].file>>]
    /\ ExecFailed

\* lines 223-226: the body is complete; create_dir_all and File::create
CreateDest ==
    /\ pc = "recv"
    /\ body_left = <<>>
    /\ disk' = WriteDest(disk, download_commands[next_cmd].file, <<>>)
    /\ pc' = "copy"
    /\ UNCHANGED <<cacheFile, remote, dry_run, mod_cache, check, next_mod,
                   download_commands, next_cmd, temp_download_file, body_left,
                   exec_res, hist, sc, cd, df, unitVars>>

\* lines 228-231: the temporary file is copied to the destination
CopyDest ==
    /\ pc = "copy"
    /\ disk' = WriteDest(disk, download_commands[next_cmd].file, temp_download_file)
    /\ temp_download_file' = <<>>
    /\ IF next_cmd = Len(download_commands)
       THEN pc' = "rescan" /\ next_cmd' = next_cmd
       ELSE pc' = "exec" /\ next_cmd' = next_cmd + 1
    /\ next_mod' = 1
    /\ UNCHANGED <<cacheFile, remote, dry_run, mod_cache, check, download_commands,
                   body_left, exec_res, hist, sc, cd, df, unitVars>>

\* one iteration of the loop at lines 277-281
Rescanned(r) ==
    /\ r.kind = "ok"
    /\ disk' = r.disk
    /\ mod_cache' = ModCache_insert(mod_cache, r.srf)

RescanOk ==
    /\ pc = "rescan"
    /\ Rescanned(gen_srf_for_mod(disk, check[next_mod].mod_name))
    /\ IF next_mod = Len(check)
       THEN pc' = "persist" /\ next_mod' = 1
       ELSE pc' = "rescan" /\ next_mod' = next_mod + 1
    /\ UNCHANGED <<cacheFile, remote, dry_run, check, download_commands, next_cmd,
                   temp_download_file, body_left, exec_res, hist, sc, cd, df, unitVars>>

\* gen_srf_for_mod panics
RescanPanic ==
    /\ pc = "rescan"
    /\ gen_srf_for_mod(disk, check[next_mod].mod_name).kind # "ok"
    /\ EndRun("panic", disk, cacheFile)

\* lines 284-287: nimble-cache.json is rewritten and sync returns Ok
Persist ==
    /\ pc = "persist"
    /\ EndRun("ok", disk, ModCache_to_disk(mod_cache))

Next ==
    \/ Publish
    \/ Start
    \/ DiffModOk
    \/ DiffModPanic
    \/ DryRunReturn
    \/ BeginExec
    \/ HttpCallOk
    \/ HttpCallFail
    \/ RecvChunk
    \/ StreamFail
    \/ CreateDest
    \/ CopyDest
    \/ RescanOk
    \/ RescanPanic
    \/ Persist

Spec == Init /\ [][Next]_vars

\* ---------------------------------------------------- the scanner, alone

\* sync stays before its first run while the scanner, the codecs or the
\* mod-level differ are exercised on their own
SyncQuiet ==
    SyncAt(CHOOSE d \in InitialDisks : d[Name_A] = NoDir /\ d[Name_b] = NoDir,
           RemoteOf(RemoteModOf(Name_A, Name_A, "json", (Path_x :> Bytes_1)), 1))

Bytes_3 == <<51, 51, 51>>
\* "a", "A", "b" and "mod.srf"
ScanPaths == {<<97>>, <<65>>, <<98>>, Str_mod_srf}
ScanContents == {Bytes_1, Bytes_3}

\* the directories handed to scan_mod: at most MaxScanFiles files
ScanDirs ==
    UNION {[ps -> ScanContents] : ps \in {q \in SUBSET ScanPaths : Cardinality(q) <= MaxScanFiles}}

\* the walk's entries of a directory, discovered in the given order
EntriesOf(files, order) ==
    [i \in 1..Len(order) |-> [path |-> order[i], content |-> files[order[i]]]]

InitScan ==
    /\ SyncQuiet
    /\ \E files \in ScanDirs :
         \E o1 \in Perms(DOMAIN files), o2 \in Perms(DOMAIN files) :
            sc = [phase |-> "found", first |-> EntriesOf(files, o1),
                  second |-> EntriesOf(files, o2), mod1 |-> NoMod, mod2 |-> NoMod]
    /\ cd = NoCodec
    /\ df = NoDiff
    /\ UnitsOff

\* scan_mod of the directory, its files discovered in the first order
ScanFirst ==
    /\ sc.phase = "found"
    /\ sc' = [sc EXCEPT !.phase = "one", !.mod1 = scan_mod(Name_A, sc.first)]
    /\ UNCHANGED <<syncVars, cd, df, unitVars>>

\* scan_mod of the same directory, its files discovered in the second order
ScanSecond ==
    /\ sc.phase = "one"
    /\ sc' = [sc EXCEPT !.phase = "two", !.mod2 = scan_mod(Name_A, sc.second)]
    /\ UNCHANGED <<syncVars, cd, df, unitVars>>

NextScan ==
    \/ ScanFirst
    \/ ScanSecond

SpecScan == InitScan /\ [][NextScan]_vars

\* ----------------------------------------------------- the codecs, alone

\* the type of every file of a mod set to t
WithType(m, t) == [m EXCEPT !.files = [i \in 1..Len(m.files) |-> [m.files[i] EXCEPT !.type = t]]]

CodecFiles ==
    UNION {[ps -> {Bytes_1, Bytes_3}] : ps \in SUBSET SyncPaths}

\* the mods handed to the codecs: scanned mods, with plain or PBO files, and
\* the invalid placeholder
CodecMods ==
    {WithType(scan_mod(n, DirEntries(f)), t) :
        n \in {Name_a, Name_b}, f \in CodecFiles, t \in {"File", "Pbo"}}
    \cup {generate_invalid(Mod(n, ZeroDigest, <<>>)) : n \in {Name_a, Name_b}}

InitCodec ==
    /\ SyncQuiet
    /\ sc = NoScan
    /\ \E m \in CodecMods : cd = [NoCodec EXCEPT !.phase = "mod", !.mod = m]
    /\ df = NoDiff
    /\ UnitsOff

\* serde_json::to_writer of the mod
EncodeJson ==
    /\ cd.phase = "mod"
    /\ cd' = [cd EXCEPT !.phase = "json", !.doc = JsonDoc(cd.mod)]
    /\ UNCHANGED <<syncVars, sc, df, unitVars>>

\* the mod written in the legacy text format
EncodeLegacy ==
    /\ cd.phase = "mod"
    /\ cd' = [cd EXCEPT !.phase = "legacy", !.doc = LegacyDoc(cd.mod)]
    /\ UNCHANGED <<syncVars, sc, df, unitVars>>

\* the document read back: detection, then the decoder it selects
Decode ==
    /\ cd.phase \in {"json", "legacy"}
    /\ cd' = [cd EXCEPT !.phase = IF cd.phase = "json" THEN "json_read" ELSE "legacy_read",
                        !.decoded = decode_srf(cd.doc)]
    /\ UNCHANGED <<syncVars, sc, df, unitVars>>

NextCodec ==
    \/ EncodeJson
    \/ EncodeLegacy
    \/ Decode

SpecCodec == InitCodec /\ [][NextCodec]_vars

\* -------------------------------------------- the mod-level differ, alone

\* the candidate's local directory: absent, files without a mod.srf, or files
\* with the mod.srf gen_srf_for_mod wrote for them
DiffFiles == UNION {[ps -> {Bytes_1, Bytes_2}] : ps \in SUBSET SyncPaths}

Scanned(dirname, files) ==
    [exists |-> TRUE, files |-> files,
     srf |-> JsonDoc(scan_mod(dirname, DirEntries(files)))]

DiffLocalDirs ==
    {NoDir} \cup {DirWith(f) : f \in DiffFiles} \cup {Scanned(Name_A, f) : f \in DiffFiles}

\* the local base path: the candidate's directory <base>/@A
DiffDisks ==
    {(Name_A :> da) @@ (Name_a :> NoDir) @@ (Name_b :> NoDir) : da \in DiffLocalDirs}

\* a remote mod whose SRF carries the all-zero checksum
ZeroChecksum(rm) ==
    RemoteModServing([rm.srfMod EXCEPT !.checksum = ZeroDigest],
                     IF rm.srf.kind = "text" THEN "legacy" ELSE "json", rm.files)

\* the remote mod: SRF name as the directory name, JSON or legacy, with the
\* checksum of its files or the zero checksum
DiffRemoteMods ==
    {RemoteModOf(Name_A, Name_A, e, f) : e \in {"json", "legacy"}, f \in RemoteFilesA}

DiffRemotes ==
    {RemoteOf(rm, 1) : rm \in DiffRemoteMods \cup {ZeroChecksum(rm) : rm \in DiffRemoteMods}}

InitDiff ==
    /\ SyncQuiet
    /\ sc = NoScan
    /\ cd = NoCodec
    /\ \E d \in DiffDisks, rem \in DiffRemotes :
         df = [NoDiff EXCEPT !.phase = "ready", !.disk = d, !.remote = rem]
    /\ UnitsOff

DiffApplied(r) == df' = [df EXCEPT !.phase = "done", !.result = r]

\* diff_mod of the candidate
DiffMod ==
    /\ df.phase = "ready"
    /\ \E ord1 \in PathOrders, ord2 \in PathOrders :
         DiffApplied(diff_mod(df.disk, df.remote, df.remote.repo.required_mods[1], ord1, ord2))
    /\ UNCHANGED <<syncVars, sc, cd, unitVars>>

NextDiff == DiffMod

SpecDiff == InitDiff /\ [][NextDiff]_vars

\* ------------------------------------------- the legacy detector, alone

\* Read::read_exact of n bytes at the cursor.  Ok moves the cursor by n.  At an
\* end of file before n bytes it is an error, and std leaves open where the
\* cursor is then: in place (Cursor of older toolchains) or at the end of the
\* input (BufReader<File>, Cursor of newer toolchains)
read_exact(bytes, pos, n) ==
    IF pos + n <= Len(bytes)
    THEN {[kind |-> "ok", buf |-> SubSeq(bytes, pos + 1, pos + n), pos |-> pos + n]}
    ELSE {[kind |-> "err", buf |-> <<>>, pos |-> q] : q \in {pos, Len(bytes)}}

\* is_legacy_srf on a byte input with its cursor at start: the outcomes, each
\* the result ("true", "false" or "err") and the cursor it leaves.  The `?` on
\* read_exact returns before the seek back to start
DetectAfterRead(r, start) ==
    IF r.kind = "err" THEN [res |-> "err", pos |-> r.pos]
    ELSE [res |-> IF r.buf = Str_ADDON THEN "true" ELSE "false", pos |-> start]

is_legacy_srf_at(bytes, start) ==
    {DetectAfterRead(r, start) : r \in read_exact(bytes, start, Len(Str_ADDON))}

\* the texts the detector is given: "ADDON:", "{ADDON" and "ADDOn:", and
\* every prefix of them
DetectTexts == {Str_ADDON \o <<CH_COLON>>, <<123>> \o Str_ADDON, <<65, 68, 68, 79, 110, 58>>}
DetectInputs == {SubSeq(t, 1, n) : t \in DetectTexts, n \in 0..6}

InitDetect ==
    /\ SyncQuiet
    /\ sc = NoScan
    /\ cd = NoCodec
    /\ df = NoDiff
    /\ \E b \in DetectInputs : \E st \in 0..Len(b) :
         lg = [NoDetect EXCEPT !.phase = "ready", !.bytes = b, !.start = st, !.pos = st]
    /\ pb = NoPboState
    /\ sf = NoFileScan
    /\ gs = NoGen

\* the detector runs on the input
Detect ==
    /\ lg.phase = "ready"
    /\ \E r \in is_legacy_srf_at(lg.bytes, lg.start) :
         lg' = [lg EXCEPT !.phase = "done", !.res = r.res, !.pos = r.pos]
    /\ UNCHANGED <<syncVars, sc, cd, df, pb, sf, gs>>

NextDetect == Detect

SpecDetect == InitDetect /\ [][NextDetect]_vars

\* ----------------------------------------------------------- PBO, alone

InitPbo ==
    /\ SyncQuiet
    /\ sc = NoScan
    /\ cd = NoCodec
    /\ df = NoDiff
    /\ lg = NoDetect
    /\ \E first \in PboFirsts, ext \in PboExts, dir \in PboDirs, payload \in PboPayloads,
          cut \in PboCuts :
         pb = [NoPboState EXCEPT !.phase = "ready", !.first = first, !.dir = dir, !.cut = cut,
                                 !.bytes = EncodePbo(first, ext, dir, payload, cut)]
    /\ sf = NoFileScan
    /\ gs = NoGen

\* Pbo::read of the file
PboRead ==
    /\ pb.phase = "ready"
    /\ \E ub \in {"panic", "lossy"} :
         pb' = [pb EXCEPT !.phase = "read", !.pbo = Pbo_read(pb.bytes, ub)]
    /\ UNCHANGED <<syncVars, sc, cd, df, lg, sf, gs>>

\* scan_pbo of the file
ScanPbo ==
    /\ pb.phase = "ready"
    /\ \E ub \in {"panic", "lossy"}, ovf \in {"panic", "wrap"} :
         pb' = [pb EXCEPT !.phase = "scanned", !.pbo = Pbo_read(pb.bytes, ub),
                          !.scanned = scan_pbo(Path_pbo, pb.bytes, ub, ovf)]
    /\ UNCHANGED <<syncVars, sc, cd, df, lg, sf, gs>>

NextPbo ==
    \/ PboRead
    \/ ScanPbo

SpecPbo == InitPbo /\ [][NextPbo]_vars

\* ------------------------------------- the rebuild and the cache, alone

Name_m == <<109>>

\* the base paths: the directories @A and @b, each absent or with files, and
\* the directory m, which gen_srf passes over
GenDisks ==
    {(Name_A :> da) @@ (Name_b :> db) @@ (Name_m :> dm) :
        da \in {NoDir} \cup {DirWith(f) : f \in DiffFiles},
        db \in {NoDir} \cup {DirWith(f) : f \in DiffFiles},
        dm \in {NoDir, DirWith((Path_x :> Bytes_1))}}

\* nimble-cache.json: absent, written by an earlier run, unreadable, or corrupt
GenCacheFiles ==
    {NoCacheFile,
     ModCache_to_disk(ModCache_insert(ModCache_new_empty, scan_mod(Name_A, <<>>))),
     [ModCache_to_disk(ModCache_new_empty) EXCEPT !.fault = "open"],
     [ModCache_to_disk(ModCache_new_empty) EXCEPT !.fault = "parse"]}

InitGen ==
    /\ SyncQuiet
    /\ sc = NoScan
    /\ cd = NoCodec
    /\ df = NoDiff
    /\ lg = NoDetect
    /\ pb = NoPboState
    /\ sf = NoFileScan
    /\ \E d \in GenDisks, cf \in GenCacheFiles :
         gs = [NoGen EXCEPT !.phase = "ready", !.disk = d, !.cacheFile = cf,
                            !.disk1 = d, !.cacheFile1 = cf]

GenApplied(phase, r, res) ==
    gs' = [gs EXCEPT !.phase = phase, !.disk1 = r.disk, !.cacheFile1 = r.cacheFile,
                     !.res = res]

\* the gen-srf command: gen_srf of the base path
GenSrf ==
    /\ gs.phase = "ready"
    /\ \E order \in Perms(AtDirs(gs.disk)) :
         GenApplied("rebuilt", gen_srf(gs.disk, order), gs.res)
    /\ UNCHANGED <<syncVars, sc, cd, df, lg, pb, sf>>

\* ModCache::from_disk_or_empty of the base path
LoadOrEmpty ==
    /\ gs.phase = "ready"
    /\ gs' = [gs EXCEPT !.phase = "loaded", !.res = from_disk_or_empty(gs.cacheFile)]
    /\ UNCHANGED <<syncVars, sc, cd, df, lg, pb, sf>>

\* open_cache_or_gen_srf of the base path
OpenOrGenerate ==
    /\ gs.phase = "ready"
    /\ \E order \in Perms(AtDirs(gs.disk)) :
         gs' = [gs EXCEPT !.phase = "opened",
                          !.res = open_cache_or_gen_srf(gs.disk, gs.cacheFile, order),
                          !.disk1 = open_cache_or_gen_srf(gs.disk, gs.cacheFile, order).disk,
                          !.cacheFile1 =
                              open_cache_or_gen_srf(gs.disk, gs.cacheFile, order).cacheFile]
    /\ UNCHANGED <<syncVars, sc, cd, df, lg, pb, sf>>

NextGen ==
    \/ GenSrf
    \/ LoadOrEmpty
    \/ OpenOrGenerate

SpecGen == InitGen /\ [][NextGen]_vars

\* ----------------------------------------------- plain-file scan, alone

\* the longest file handed to scan_file in the plain-file specification
MaxFileLen == 6

\* the files scanned: every length up to MaxFileLen, of the bytes 7 and 8,
\* at the top of the mod directory or one level down
FileContents == UNION {[1..n -> {7, 8}] : n \in 0..MaxFileLen}
FilePaths == {Path_x, <<100, CH_SLASH, 120>>}

InitFile ==
    /\ SyncQuiet
    /\ sc = NoScan
    /\ cd = NoCodec
    /\ df = NoDiff
    /\ lg = NoDetect
    /\ pb = NoPboState
    /\ \E path \in FilePaths, content \in FileContents :
         sf = [NoFileScan EXCEPT !.phase = "ready", !.path = path, !.content = content]
    /\ gs = NoGen

\* scan_file of the file
ScanFile ==
    /\ sf.phase = "ready"
    /\ sf' = [sf EXCEPT !.phase = "scanned", !.file = scan_file(sf.path, sf.content)]
    /\ UNCHANGED <<syncVars, sc, cd, df, lg, pb, gs>>

NextFile == ScanFile

SpecFile == InitFile /\ [][NextFile]_vars

\* ------------------------------- sync against a remote that changes twice

\* how many times the remote changes between runs: from one revision to a
\* second and back
MaxRepublish == 2

\* the revisions of the one required mod @A: JSON SRFs under the manifest's name
RevisionsOfA == {RemoteModOf(Name_A, Name_A, "json", f) : f \in RemoteFilesA}
RepublishRemotes == {RemoteOf(ra, 1) : ra \in RevisionsOfA}
\* the local base directory holds at most the mod @A
RepublishDisks == {d \in InitialDisks : ~d[Name_b].exists}

InitRepublish ==
    /\ \E d \in RepublishDisks, rem \in RepublishRemotes : SyncAt(d, rem)
    /\ sc = NoScan
    /\ cd = NoCodec
    /\ df = NoDiff
    /\ UnitsOff

\* between two runs, the repository publishes another revision of @A
Republish ==
    /\ pc = "idle"
    /\ hist.publishes < MaxRepublish
    /\ \E r \in RepublishRemotes \ {remote} : remote' = r
    /\ hist' = [hist EXCEPT !.publishes = @ + 1]
    /\ UNCHANGED <<disk, cacheFile, pc, dry_run, mod_cache, check, next_mod,
                   download_commands, next_cmd, temp_download_file, body_left,
                   exec_res, sc, cd, df, unitVars>>

NextRepublish ==
    \/ Republish
    \/ Start
    \/ DiffModOk
    \/ DiffModPanic
    \/ DryRunReturn
    \/ BeginExec
    \/ HttpCallOk
    \/ HttpCallFail
    \/ RecvChunk
    \/ StreamFail
    \/ CreateDest
    \/ CopyDest
    \/ RescanOk
    \/ RescanPanic
    \/ Persist

SpecRepublish == InitRepublish /\ [][NextRepublish]_vars

\* ------------------------------------ scan_file's chunk loop, step by step

\* the file as scan_file meets it: content is what the reader can deliver,
\* file_len what the metadata reports; the two differ when the file is cut or
\* extended between the metadata call and the reads
InitFileLoop ==
    /\ SyncQuiet
    /\ sc = NoScan
    /\ cd = NoCodec
    /\ df = NoDiff
    /\ lg = NoDetect
    /\ pb = NoPboState
    /\ \E path \in FilePaths, content \in FileContents, file_len \in 0..MaxFileLen :
         sf = [NoFileScan EXCEPT !.phase = "loop", !.path = path, !.content = content,
                                 !.file_len = file_len]
    /\ gs = NoGen

\* io::copy through take(5000000): the bytes left from pos on, one chunk at most
Copied(content, pos) ==
    IF Len(content) - pos < ChunkSize THEN Len(content) - pos ELSE ChunkSize

\* the part pushed by one iteration that started at pos and copied n bytes
LoopPart(path, content, pos, n) ==
    Part(Basename(path) \o <<CH_USCORE>> \o NumToStr(pos + n), n, pos,
         Md5Hex(SubSeq(content, pos + 1, pos + n)))

\* parts.push; the first MaxFileLen + 1 parts are kept, more than any loop
\* that ends can push
PushPart(parts, part) ==
    IF Len(parts) <= MaxFileLen THEN Append(parts, part) ELSE parts

\* one iteration of `while pos < file_len`; iter is the parity of the
\* number of iterations
ReadChunk ==
    /\ sf.phase = "loop"
    /\ sf.pos < sf.file_len
    /\ sf' = [sf EXCEPT
                 !.pos = @ + Copied(sf.content, sf.pos),
                 !.parts = PushPart(@, LoopPart(sf.path, sf.content, sf.pos,
                                                Copied(sf.content, sf.pos))),
                 !.iter = 1 - @]
    /\ UNCHANGED <<syncVars, sc, cd, df, lg, pb, gs>>

\* the loop's condition fails: the File is built from the parts, its length pos
LoopDone ==
    /\ sf.phase = "loop"
    /\ ~(sf.pos < sf.file_len)
    /\ sf' = [sf EXCEPT !.phase = "scanned",
                        !.file = FileOfParts(sf.path, sf.pos, sf.parts)]
    /\ UNCHANGED <<syncVars, sc, cd, df, lg, pb, gs>>

NextFileLoop ==
    \/ ReadChunk
    \/ LoopDone

SpecFileLoop == InitFileLoop /\ [][NextFileLoop]_vars

\* the loop is sequential code of one thread: it keeps taking its next step
FairFileLoop == SpecFileLoop /\ WF_vars(NextFileLoop)

\* ------------------------------------------------------------- properties

\* C1: in every run of sync, the candidates diff_repo returned are exactly the
\* required mods of the manifest whose checksum is no key of the cache that was
\* loaded, in manifest order; no optional mod is among them; and diff_repo
\* returns the same for any value of the manifest's own checksum field.
C1_DiffRepoExact ==
    pc # "idle" =>
        /\ check = SelectSeq(remote.repo.required_mods,
                             LAMBDA m : m.checksum \notin DOMAIN hist.loaded.mods)
        /\ \A i \in 1..Len(check) : check[i] \notin Range(remote.repo.optional_mods)
        /\ \A c \in {<<82>>, <<83>>, <<>>} :
               diff_repo(hist.loaded, [remote.repo EXCEPT !.checksum = c]) = check

\* a run in which one required mod is a candidate and another is not
C1_Witness ==
    /\ pc # "idle"
    /\ check # <<>>
    /\ Len(check) < Len(remote.repo.required_mods)

\* C2: from the start of a dry run until it returns, nothing under the local
\* base path is created, overwritten or deleted: the directories, their files
\* and mod.srf, and nimble-cache.json are as they were when sync started.
C2_DryRunWritesNothing ==
    (dry_run /\ pc # "idle") => (disk = hist.disk0 /\ cacheFile = hist.cacheFile0)

\* C2, the deletions alone: a dry run removes no leftover file
C2_DryRunDeletesNothing == (dry_run /\ pc # "idle") => ~hist.deleted

\* C3: after a completed run of sync whose downloads all succeeded, every key
\* of the persisted cache is the scanned digest of a mod directory that exists
\* on disk with that content; no entry of a superseded version remains.
C3_CacheConsistent ==
    (pc = "idle" /\ hist.last = "ok" /\ ~hist.dl_failed) =>
        \A k \in DOMAIN cacheFile.cache.mods :
            \E n \in DirNames :
                /\ disk[n].exists
                /\ scan_mod(n, DirEntries(disk[n].files)).checksum = k

\* C3 for a remote that serves the mod's SRF in JSON, under the manifest's
\* name, and has published once
C3_JsonRemote ==
    (/\ remote.mods[Name_A].srf.kind = "json"
     /\ remote.mods[Name_A].srfMod.name = Name_A
     /\ hist.publishes = 0) => C3_CacheConsistent

\* C4: a run of sync in which a download command failed still rescans the
\* candidates and persists nimble-cache.json: it ends by returning Ok.
C4_FailureStillPersists == (pc = "idle" /\ hist.dl_failed) => hist.last = "ok"

\* C5: a second run of sync, after a first run that completed with every
\* download successful and with the remote unchanged, plans no download,
\* deletes no file, and persists the cache map the first run persisted.
C5_ResyncIdempotent ==
    /\ (hist.second /\ pc = "planned") => (download_commands = <<>> /\ ~hist.deleted)
    /\ (hist.second /\ pc = "idle" /\ hist.last = "ok") => hist.prev.mods = hist.firstMods

\* C6: while a command's body is being received the destination is as it was
\* before the command; the destination is written only once the complete body
\* is in the temporary file; after a failed request or stream the destination
\* of the failed command is as it was before the command.
C6_StagedDownload ==
    /\ pc = "recv" => Dest(disk, download_commands[next_cmd].file) = hist.dest0
    /\ pc = "copy" => (temp_download_file = hist.body /\ body_left = <<>>)
    /\ (pc = "rescan" /\ hist.failed_cmd # <<>>) =>
           Dest(disk, hist.failed_cmd[1]) = hist.dest0

\* a part of the body is received while the destination holds an older file
C6_Witness ==
    /\ pc = "recv"
    /\ temp_download_file # <<>>
    /\ body_left # <<>>
    /\ hist.dest0.exists

\* the paths the remote SRF lists, and the paths the commands fetch
ListedFiles(rm) == FilesByPath(rm.srfMod.files)
CommandsFor(cmds, p) == {i \in 1..Len(cmds) : FileRel(cmds[i].file) = p}

\* C7: when the candidate's local directory does not exist, diff_mod returns
\* a download command for every file the remote SRF lists, whatever the SRF's
\* checksum and encoding.
C7_MissingDirDownloadsAll ==
    (df.phase = "done" /\ ~df.disk[Name_A].exists) =>
        /\ df.result.kind = "ok"
        /\ \A p \in DOMAIN ListedFiles(df.remote.mods[Name_A]) :
               CommandsFor(df.result.commands, p) # {}

\* the local SRF diff_mod compares with, and whether a remote file needs a download
LocalFiles(d, rm) == FilesByPath(local_srf(d, Name_A, rm.srfMod).mod.files)
NeedsDownload(d, rm, p) ==
    \/ p \notin DOMAIN LocalFiles(d, rm)
    \/ LocalFiles(d, rm)[p].checksum # ListedFiles(rm)[p].checksum

\* C8: when the local and the remote mod checksum differ, diff_mod returns
\* exactly one download command for each remote file that has no local file of
\* its path or whose local file has another checksum, and none for any other.
C8_OneCommandPerChangedFile ==
    (/\ df.phase = "done"
     /\ local_srf(df.disk, Name_A, df.remote.mods[Name_A].srfMod).mod.checksum
            # df.remote.mods[Name_A].srfMod.checksum) =>
        /\ df.result.kind = "ok"
        /\ \A p \in DOMAIN ListedFiles(df.remote.mods[Name_A]) :
               Cardinality(CommandsFor(df.result.commands, p)) =
                   IF NeedsDownload(df.disk, df.remote.mods[Name_A], p) THEN 1 ELSE 0
        /\ \A i \in 1..Len(df.result.commands) :
               FileRel(df.result.commands[i].file) \in DOMAIN ListedFiles(df.remote.mods[Name_A])

\* C8 for a remote SRF received in JSON
C8_Json ==
    df.remote.mods[Name_A].srf.kind = "json" => C8_OneCommandPerChangedFile

\* C9: scan_mod of one directory under two discovery orders of its files gives
\* the same checksum and the same files in the same order.
C9_ScanOrderIndependent ==
    sc.phase = "two" => (sc.mod1.checksum = sc.mod2.checksum /\ sc.mod1.files = sc.mod2.files)

\* C9 for a directory no two paths of which differ only by letter case
C9_CaseDistinct ==
    (\A i, j \in 1..Len(sc.first) :
        i # j => ToUpper(sc.first[i].path) # ToUpper(sc.first[j].path))
    => C9_ScanOrderIndependent

\* C10: decoding the encoding of a mod returns an equal mod, for the JSON
\* codec and for the legacy codec.
C10_RoundTrip ==
    cd.phase \in {"json_read", "legacy_read"} =>
        (cd.decoded.kind = "ok" /\ cd.decoded.mod = cd.mod)

\* C10 for the JSON codec alone
C10_JsonRoundTrip ==
    cd.phase = "json_read" => (cd.decoded.kind = "ok" /\ cd.decoded.mod = cd.mod)

\* C11: the legacy detector is non-consuming: whatever it returns (true, false,
\* or an error when fewer than five bytes remain) the cursor is where it was on
\* entry, and it returns true exactly when the five bytes at the cursor are
\* "ADDON"
AddonAtCursor ==
    /\ lg.start + 5 <= Len(lg.bytes)
    /\ SubSeq(lg.bytes, lg.start + 1, lg.start + 5) = Str_ADDON

C11_DetectorNonConsuming ==
    lg.phase = "done" =>
        /\ lg.pos = lg.start
        /\ (lg.res = "true") <=> AddonAtCursor
        /\ (lg.res = "err") <=> (Len(lg.bytes) - lg.start < 5)

\* C11 for the calls that return a boolean
C11_RestoredWhenOk ==
    (lg.phase = "done" /\ lg.res # "err") =>
        /\ lg.pos = lg.start
        /\ (lg.res = "true") <=> AddonAtCursor

\* C12: the parts of a scanned PBO start at offset 0, each starts where the one
\* before it ends, and their lengths sum to the file length, also when the
\* directory's data_size values sum to more than the bytes after the header:
\* the remaining length of the $$END$$ part does not underflow
RECURSIVE SumLengths(_)
SumLengths(parts) == IF parts = <<>> THEN 0 ELSE Head(parts).length + SumLengths(Tail(parts))

Contiguous(parts) ==
    /\ parts # <<>>
    /\ parts[1].start = 0
    /\ \A i \in 1..(Len(parts) - 1) : parts[i + 1].start = parts[i].start + parts[i].length

C12_PboPartsCoverFile ==
    (pb.phase = "scanned" /\ pb.pbo.kind = "ok") =>
        /\ pb.scanned.kind = "ok"
        /\ Contiguous(pb.scanned.file.parts)
        /\ pb.scanned.file.length = Len(pb.bytes)
        /\ SumLengths(pb.scanned.file.parts) = pb.scanned.file.length

\* C12 for the PBOs whose hashed entries fit in the bytes after the header
C12_WhenEntriesFit ==
    (/\ pb.phase = "scanned" /\ pb.pbo.kind = "ok"
     /\ pb.pbo.header_len + SumDataSize(Skip1(pb.pbo.entries)) <= Len(pb.bytes))
        => C12_PboPartsCoverFile

\* C13: a header with a type tag other than the four known ones makes Pbo::read
\* return an error to its caller; the entry is not skipped and the process is
\* not terminated
UnknownTagInHeader ==
    \/ EntryType(pb.first.tag) = "unknown"
    \/ \E i \in 1..Len(pb.dir) : EntryType(pb.dir[i].tag) = "unknown"

C13_UnknownTagIsError ==
    (pb.phase = "read" /\ UnknownTagInHeader) => pb.pbo.kind = "err"

\* C13, the part that holds: a header with an unknown tag is never read as Ok
C13_UnknownTagNotSkipped ==
    (pb.phase = "read" /\ UnknownTagInHeader) => pb.pbo.kind # "ok"

\* C18: the entry list Pbo::read returns has the Vers record first and then
\* the directory's entries; scan_pbo emits $$HEADER$$, then one part for every
\* entry but the Vers record, in directory order, named after the entry and
\* covering data_size bytes from the running offset, which starts at
\* header_len, then $$END$$
RunningOffset(i) ==
    pb.pbo.header_len + SumDataSize([j \in 1..(i - 1) |-> pb.dir[j]])

C18_PboEntryParts ==
    (pb.phase = "scanned" /\ pb.scanned.kind = "ok") =>
        /\ Len(pb.pbo.entries) = Len(pb.dir) + 1
        /\ pb.pbo.entries[1].type = "Vers"
        /\ \A i \in 1..Len(pb.dir) : pb.pbo.entries[i + 1].filename = pb.dir[i].filename
        /\ Len(pb.scanned.file.parts) = Len(pb.dir) + 2
        /\ pb.scanned.file.parts[1].path = Str_HEADER
        /\ pb.scanned.file.parts[Len(pb.dir) + 2].path = Str_END
        /\ \A i \in 1..Len(pb.dir) :
              /\ pb.scanned.file.parts[i + 1].path = pb.dir[i].filename
              /\ pb.scanned.file.parts[i + 1].start = RunningOffset(i)
              /\ pb.scanned.file.parts[i + 1].length = pb.dir[i].data_size

\* C18, the parts alone: one part for every entry after the Vers record
C18_PartPerEntry ==
    (pb.phase = "scanned" /\ pb.scanned.kind = "ok") =>
        /\ Len(pb.scanned.file.parts) = Len(pb.dir) + 2
        /\ \A i \in 1..Len(pb.dir) :
              /\ pb.scanned.file.parts[i + 1].path = pb.dir[i].filename
              /\ pb.scanned.file.parts[i + 1].start = RunningOffset(i)
              /\ pb.scanned.file.parts[i + 1].length = pb.dir[i].data_size

\* C14: a full rebuild over a base directory without nimble-cache.json leaves
\* a cache with exactly one entry for every '@' directory at depth 1, keyed by
\* the digest scan_mod gives that directory, whatever the directories hold
DigestOfDir(d, n) == scan_mod(n, DirEntries(d[n].files)).checksum

C14_RebuildOneEntryPerDir ==
    (gs.phase = "rebuilt" /\ ~gs.cacheFile.exists) =>
        /\ gs.cacheFile1.exists
        /\ Cardinality(DOMAIN gs.cacheFile1.cache.mods) = Cardinality(AtDirs(gs.disk))
        /\ DOMAIN gs.cacheFile1.cache.mods = {DigestOfDir(gs.disk, n) : n \in AtDirs(gs.disk)}

\* C14 for '@' directories whose contents differ
C14_DistinctContents ==
    (/\ gs.phase = "rebuilt" /\ ~gs.cacheFile.exists
     /\ \A n1, n2 \in AtDirs(gs.disk) : n1 # n2 => gs.disk[n1].files # gs.disk[n2].files)
        => C14_RebuildOneEntryPerDir

\* C15: an absent nimble-cache.json is never an error: from_disk_or_empty gives
\* the empty cache of version 1, open_cache_or_gen_srf runs the full rebuild
\* and gives the rebuilt cache; a file that cannot be opened or read is an
\* error to the caller and nothing is rebuilt
Rebuilt ==
    /\ gs.cacheFile1.exists
    /\ gs.cacheFile1.fault = "none"
    /\ \A n \in AtDirs(gs.disk) :
          /\ gs.disk1[n].srf.kind = "json"
          /\ DigestOfDir(gs.disk, n) \in DOMAIN gs.cacheFile1.cache.mods

C19_PlainFileChunks ==
    sf.phase = "scanned" =>
        /\ Len(sf.file.parts) = (Len(sf.content) + ChunkSize - 1) \div ChunkSize
        /\ \A i \in 1..Len(sf.file.parts) :
              /\ sf.file.parts[i].start = (i - 1) * ChunkSize
              /\ sf.file.parts[i].length =
                     IF i < Len(sf.file.parts) THEN ChunkSize
                     ELSE Len(sf.content) - (Len(sf.file.parts) - 1) * ChunkSize
              /\ sf.file.parts[i].length \in 1..ChunkSize
        /\ SumLengths(sf.file.parts) = Len(sf.content)
        /\ sf.file.length = Len(sf.content)
        /\ Len(sf.content) = 0 => sf.file.parts = <<>>

\* a file of two full chunks has been scanned
C19_Witness ==
    /\ sf.phase = "scanned"
    /\ Len(sf.content) = 2 * ChunkSize
    /\ Len(sf.file.parts) = 2
    /\ sf.file.parts[2].length = ChunkSize

\* C16: when execute_command_list fails at command k, the destinations of the
\* commands before k hold the complete bodies downloaded for them, and the
\* destinations of the commands after k are as they were when the execution
\* began: it stops at the first failing command
C16_FailureKeepsCompleted ==
    (pc = "rescan" /\ hist.failed_cmd # <<>>) =>
        /\ \A i \in 1..(next_cmd - 1) :
              /\ Dest(disk, download_commands[i].file).exists
              /\ Dest(disk, download_commands[i].file).content =
                     ServerLookup(remote, download_commands[i].file).content
        /\ \A i \in (next_cmd + 1)..Len(download_commands) :
              Dest(disk, download_commands[i].file) =
                  Dest(hist.disk_exec, download_commands[i].file)

\* the second of three commands has failed
C16_Witness ==
    /\ pc = "rescan"
    /\ hist.failed_cmd # <<>>
    /\ next_cmd = 2
    /\ Len(download_commands) = 3
    /\ Dest(disk, download_commands[1].file).exists

\* C17: a scanner or codec error raised while sync diffs a candidate is
\* returned by sync as an error value; the run is over at the error, before
\* any download and before nimble-cache.json is rewritten
C17_DiffErrorReturned ==
    (pc = "idle" /\ hist.diff_err = "codec") => hist.last = "err"

\* C17, the part that holds: the run ends where the error was raised
C17_DiffErrorAborts ==
    (pc = "idle" /\ hist.diff_err = "codec") => hist.last \in {"err", "panic"}

\* C20: in a sync that is not a dry run, every local file of a candidate that
\* the remote SRF does not list is deleted from <mod_dir>/<path>, no file the
\* remote SRF lists is deleted, and all deletions of all candidates are done
\* before the first download command is executed
ListedPaths(mod_name) ==
    {remote.mods[mod_name].srfMod.files[i].path :
        i \in 1..Len(remote.mods[mod_name].srfMod.files)}

LeftoversRemoved ==
    (pc = "planned" /\ ~dry_run) =>
        \A i \in 1..Len(check) :
            hist.disk0[check[i].mod_name].exists =>
                DOMAIN disk[check[i].mod_name].files =
                    DOMAIN hist.disk0[check[i].mod_name].files
                        \cap ListedPaths(check[i].mod_name)

NoDeletionAfterPlan ==
    pc \in {"exec", "recv", "copy", "rescan", "persist"} =>
        \A n \in DirNames : disk[n].exists =>
            (disk'[n].exists /\ DOMAIN disk[n].files \subseteq DOMAIN disk'[n].files)

C20_DeletionsBeforeDownloads == [](LeftoversRemoved) /\ [][NoDeletionAfterPlan]_vars

\* C20, the order alone: nothing is deleted once the plan is complete
C20_NoLateDeletion == [][NoDeletionAfterPlan]_vars

\* C20 for a remote SRF in JSON
C20_Json ==
    (\A i \in 1..Len(check) : remote.mods[check[i].mod_name].srf.kind = "json")
        => LeftoversRemoved

\* C21: every DownloadCommand of a candidate has file "<mod_name>/<path>",
\* mod_name being the candidate's name in the repository manifest (the
\* directory diff_mod tests for existence and sync rescans), begin 0 and end
\* the length of the remote file
CommandOfCandidate(cmd) ==
    \E i \in 1..Len(check) :
        \E j \in 1..Len(remote.mods[check[i].mod_name].srfMod.files) :
            cmd = DownloadCommand(
                      check[i].mod_name \o <<CH_SLASH>>
                          \o remote.mods[check[i].mod_name].srfMod.files[j].path,
                      0, remote.mods[check[i].mod_name].srfMod.files[j].length)

C21_CommandFileUnderModName ==
    pc # "idle" => \A k \in 1..Len(download_commands) : CommandOfCandidate(download_commands[k])

\* C21 for candidates whose SRF carries the manifest's name
C21_SameName ==
    (\A i \in 1..Len(check) : remote.mods[check[i].mod_name].srfMod.name = check[i].mod_name)
        => C21_CommandFileUnderModName

\* C22: whenever the repo-level diff takes a required mod as up to date,
\* its checksum being a key of the cache, the mod's directory holds content
\* whose scanned digest is that checksum, also after the remote has gone from
\* one revision to another and back
UpToDateIsOnDisk(m) ==
    m.checksum \in DOMAIN hist.loaded.mods =>
        /\ hist.disk0[m.mod_name].exists
        /\ DigestOfDir(hist.disk0, m.mod_name) = m.checksum

C22_CachedMeansOnDisk ==
    pc # "idle" =>
        \A i \in 1..Len(remote.repo.required_mods) : UpToDateIsOnDisk(remote.repo.required_mods[i])

\* C23: scan_file's chunk loop ends after finitely many iterations, also
\* when the reader delivers fewer bytes than the metadata length, so that a
\* read returns zero bytes before that length is reached
C23_ChunkLoopEnds == <>(sf.phase = "scanned")

\* C23 for files that deliver at least as many bytes as the metadata reports
C23_EndsWhenReadable ==
    (sf.file_len <= Len(sf.content)) => <>(sf.phase = "scanned")

\* every iteration that does not end the scan has read at least one byte
\* unless the reader is at the end of the file
C23_IterationAdvances ==
    [][ReadChunk => (sf'.pos > sf.pos \/ sf.pos = Len(sf.content))]_vars

\* the loop, when metadata and reader agree, builds what scan_file returns
C23_LoopIsScanFile ==
    (sf.phase = "scanned" /\ sf.file_len = Len(sf.content) /\ sf.file_len > 0)
        => sf.file = scan_file(sf.path, sf.content)

\* C24: the mods map gen_srf persists, its keys and the name under each key,
\* is the same for every order in which the per-directory tasks complete, and
\* no two tasks write the same file
WrittenBy(d, n) == {k \in DOMAIN d : gen_srf_for_mod(d, n).disk[k] # d[k]}

TasksWriteApart(d) ==
    \A n1, n2 \in AtDirs(d) :
        /\ WrittenBy(d, n1) \subseteq {n1}
        /\ n1 # n2 => gen_srf_for_mod(gen_srf_for_mod(d, n1).disk, n2).disk
                          = gen_srf_for_mod(gen_srf_for_mod(d, n2).disk, n1).disk

SameMapInEveryOrder ==
    \A order \in Perms(AtDirs(gs.disk)) :
        gen_srf(gs.disk, order).cacheFile.cache.mods = gs.cacheFile1.cache.mods

C24_OrderIndependentCache ==
    gs.phase = "rebuilt" => (SameMapInEveryOrder /\ TasksWriteApart(gs.disk))

\* C24 for '@' directories whose contents differ
C24_DistinctContents ==
    (\A n1, n2 \in AtDirs(gs.disk) : n1 # n2 => gs.disk[n1].files # gs.disk[n2].files)
        => C24_OrderIndependentCache

\* in every order the keys are the same and each task writes only the
\* mod.srf of its own directory
C24_KeysAndFiles ==
    gs.phase = "rebuilt" =>
        /\ \A order \in Perms(AtDirs(gs.disk)) :
               DOMAIN gen_srf(gs.disk, order).cacheFile.cache.mods
                   = DOMAIN gs.cacheFile1.cache.mods
        /\ TasksWriteApart(gs.disk)
        /\ \A order \in Perms(AtDirs(gs.disk)) : gen_srf(gs.disk, order).disk = gs.disk1

====
